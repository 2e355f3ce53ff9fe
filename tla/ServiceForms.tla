----------------------------- MODULE ServiceForms -----------------------------
(****************************************************************************)
(* ServiceDesk with one slow client. The client fetched a request some time *)
(* ago and still shows that content in a form; meanwhile everybody else     *)
(* acts on what is stored now. When the form is submitted it carries the    *)
(* version the client fetched (VersionDto, and mutation() in                *)
(* paid-services.service.ts).                                               *)
(****************************************************************************)
EXTENDS ServiceDesk

CONSTANT NoForm

VARIABLE form   \* the open form: a request id and the content it shows

formVars == <<vars, form>>

FormsInit == Init /\ form = NoForm

OpenForm(r) ==
    /\ form = NoForm
    /\ Created(r)
    /\ form' = [id |-> r, shown |-> request[r]]
    /\ UNCHANGED vars

\* The handler accepts the form.
SubmitForm ==
    /\ form # NoForm
    /\ ServiceMutation(form.id, form.shown.version)
    /\ form' = NoForm

\* The handler refuses it ("Refresh it before trying again"), or it is closed.
CloseForm ==
    /\ form # NoForm
    /\ form' = NoForm
    /\ UNCHANGED vars

FormsNext ==
    \/ \E r \in Request : OpenForm(r)
    \/ SubmitForm
    \/ CloseForm
    \/ Next /\ UNCHANGED form

FormsSpec == FormsInit /\ [][FormsNext]_formVars

\* No decision is applied to a request that changed after the decider looked
\* at it (F04_IMPLEMENTATION.md: "stale request versions ... are rejected").
\* Needs every mutation, evidence uploads too, to move the version.
NoStaleSubmission ==
    [][form # NoForm /\ form' = NoForm /\ request' # request
          => request[form.id] = form.shown]_formVars

=============================================================================
