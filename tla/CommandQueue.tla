---------------------------- MODULE CommandQueue -----------------------------
(***************************************************************************)
(* What either processor wants of the other: its commands are carried out  *)
(* one by one, in the order they were given, each with its own argument.   *)
(***************************************************************************)
EXTENDS Sequences

CONSTANTS
  Command,   (* the commands that can be given                            *)
  Argument,  (* the argument each is given with                           *)
  None       (* nothing carried out yet                                   *)

VARIABLES
  queue,     (* commands given and not yet carried out                    *)
  ran        (* the command carried out last, with its argument           *)

queueVars == <<queue, ran>>

Init == queue = <<>> /\ ran = None

Give(c) ==
  /\ queue' = Append(queue, c)
  /\ UNCHANGED ran

CarryOut ==
  /\ queue # <<>>
  /\ ran' = <<Head(queue), Argument[Head(queue)]>>
  /\ queue' = Tail(queue)

Next == (\E c \in Command : Give(c)) \/ CarryOut

Spec == Init /\ [][Next]_queueVars
=============================================================================
