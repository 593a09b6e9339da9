------------------------------ MODULE AbsChannel ------------------------------
(***************************************************************************)
(* What the channels of a drang session promise, whatever the locks,       *)
(* waiting lines and wake-ups behind them: every send and receive takes    *)
(* effect at most once, between its call and its return, in one atomic     *)
(* step; buffered values come out in the order they went in; close is a    *)
(* point in time after which no send takes effect; and an operation is     *)
(* given up only where it could not have taken effect.                     *)
(***************************************************************************)
EXTENDS Naturals, Sequences

CONSTANTS Strands, Chans, Capacity, Messages, None

VARIABLES
  buf,     (* buf[c]: the values sent and not yet received   *)
  shut,    (* shut[c]: c was closed                          *)
  call,    (* call[s]: the operation strand s is executing   *)
  answer   (* answer[s]: what it returns, once it is decided *)

vars == <<buf, shut, call, answer>>

NoCall == [kind |-> "none", on |-> None, msg |-> None]
NoReply == [out |-> "none", val |-> None]
Answer(out) == [out |-> out, val |-> None]
Received(m) == [out |-> "value", val |-> m]

Init ==
  /\ buf = [c \in Chans |-> <<>>]
  /\ shut = [c \in Chans |-> FALSE]
  /\ call = [s \in Strands |-> NoCall]
  /\ answer = [s \in Strands |-> NoReply]

(* s is executing an operation of this kind on c, and it is undecided. *)
Undecided(s, kind, c) ==
  call[s].kind = kind /\ call[s].on = c /\ answer[s] = NoReply

Invoke(s) ==
  /\ call[s] = NoCall
  /\ \E c \in Chans :
       \/ call' = [call EXCEPT ![s] = [kind |-> "recv", on |-> c, msg |-> None]]
       \/ \E m \in Messages : call' = [call EXCEPT ![s] = [kind |-> "send", on |-> c, msg |-> m]]
  /\ UNCHANGED <<buf, shut, answer>>

Return(s) ==
  /\ answer[s] # NoReply
  /\ call' = [call EXCEPT ![s] = NoCall]
  /\ answer' = [answer EXCEPT ![s] = NoReply]
  /\ UNCHANGED <<buf, shut>>

(* A send into a free slot. *)
Put(s, c) ==
  /\ Undecided(s, "send", c) /\ ~shut[c] /\ Len(buf[c]) < Capacity[c]
  /\ buf' = [buf EXCEPT ![c] = Append(@, call[s].msg)]
  /\ answer' = [answer EXCEPT ![s] = Answer("committed")]
  /\ UNCHANGED <<shut, call>>

(* A send and a receive meet: nothing is buffered that should come first. *)
Meet(s, r, c) ==
  /\ Undecided(s, "send", c) /\ Undecided(r, "recv", c) /\ ~shut[c] /\ buf[c] = <<>>
  /\ answer' = [answer EXCEPT ![s] = Answer("committed"), ![r] = Received(call[s].msg)]
  /\ UNCHANGED <<buf, shut, call>>

(* A receive of the oldest buffered value, closed or not. *)
Take(r, c) ==
  /\ Undecided(r, "recv", c) /\ buf[c] # <<>>
  /\ buf' = [buf EXCEPT ![c] = Tail(@)]
  /\ answer' = [answer EXCEPT ![r] = Received(Head(buf[c]))]
  /\ UNCHANGED <<shut, call>>

(* The same, and a waiting send takes the slot. *)
TakeAndRefill(r, s, c) ==
  /\ Undecided(r, "recv", c) /\ Undecided(s, "send", c) /\ ~shut[c] /\ buf[c] # <<>>
  /\ buf' = [buf EXCEPT ![c] = Append(Tail(@), call[s].msg)]
  /\ answer' = [answer EXCEPT ![r] = Received(Head(buf[c])), ![s] = Answer("committed")]
  /\ UNCHANGED <<shut, call>>

Shut(c) ==
  /\ ~shut[c]
  /\ shut' = [shut EXCEPT ![c] = TRUE]
  /\ UNCHANGED <<buf, call, answer>>

(* After the close a send is refused, and a receive once c is drained. *)
RefuseClosed(s, c) ==
  /\ shut[c]
  /\ \/ Undecided(s, "send", c)
     \/ Undecided(s, "recv", c) /\ buf[c] = <<>>
  /\ answer' = [answer EXCEPT ![s] = Answer("closed")]
  /\ UNCHANGED <<buf, shut, call>>

(* No operation in progress can complete this one. *)
Stuck(s) ==
  \E c \in Chans :
    /\ ~shut[c]
    /\ \/ /\ Undecided(s, "send", c) /\ Len(buf[c]) >= Capacity[c]
          /\ \A r \in Strands : ~Undecided(r, "recv", c)
       \/ /\ Undecided(s, "recv", c) /\ buf[c] = <<>>
          /\ \A r \in Strands : ~Undecided(r, "send", c)

GiveUp ==
  \E S \in (SUBSET Strands) \ {{}} :
    /\ \A s \in S : Stuck(s)
    /\ answer' = [s \in Strands |-> IF s \in S THEN Answer("deadlock") ELSE answer[s]]
    /\ UNCHANGED <<buf, shut, call>>

Next ==
  \/ \E s \in Strands : Invoke(s) \/ Return(s)
  \/ \E c \in Chans :
       \/ Shut(c)
       \/ \E s \in Strands : Put(s, c) \/ Take(s, c) \/ RefuseClosed(s, c)
       \/ \E s, r \in Strands : Meet(s, r, c) \/ TakeAndRefill(r, s, c)
  \/ GiveUp

Spec == Init /\ [][Next]_vars
=============================================================================
