------------------------------- MODULE MCProcess -------------------------------
(* The calls for which TLC checks Process. *)
EXTENDS Process

Form(form, limits, timeout, supervise, input) ==
  [form |-> form, limits |-> limits, timeout |-> timeout, supervise |-> supervise,
   stdin |-> input]

(* Each option with each it interacts with. *)
StartCalls == {Form("start", TRUE, FALSE, FALSE, FALSE), Form("start", FALSE, FALSE, TRUE, TRUE)}
CaptureCalls == {Form("capture", TRUE, FALSE, FALSE, FALSE), Form("capture", FALSE, TRUE, FALSE, FALSE)}
AllKinds == StartCalls \cup CaptureCalls

(* A process that is fed by send_stdin. *)
Fed == {Form("start", FALSE, FALSE, FALSE, TRUE)}
=============================================================================
