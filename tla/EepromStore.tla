----------------------------- MODULE EepromStore -----------------------------
(***************************************************************************)
(* What an EEPROM save chip promises the game that drives it: a store of   *)
(* words, one request at a time; a write changes the one word it names and *)
(* a read is answered with the word as it was last written.                *)
(***************************************************************************)
CONSTANTS
  Block,     (* the words' addresses                                      *)
  Word,      (* what a word may hold                                      *)
  Blank,     (* what it holds before it is first written                  *)
  None       (* no request, no answer                                     *)

VARIABLES
  request,   (* the request under way: a record, or None                  *)
  store,
  answer     (* the word the last read was answered with                  *)

storeVars == <<request, store, answer>>

Requests ==
  [op : {"read"}, block : Block] \cup [op : {"write"}, block : Block, word : Word]

Init ==
  /\ request = None
  /\ store = [b \in Block |-> Blank]
  /\ answer = None

Ask(r) == request = None /\ request' = r /\ UNCHANGED <<store, answer>>

Write ==
  /\ request # None /\ request.op = "write"
  /\ store' = [store EXCEPT ![request.block] = request.word]
  /\ request' = None
  /\ UNCHANGED answer

Read ==
  /\ request # None /\ request.op = "read"
  /\ answer' = store[request.block]
  /\ request' = None
  /\ UNCHANGED store

Next == (\E r \in Requests : Ask(r)) \/ Write \/ Read

Spec == Init /\ [][Next]_storeVars
=============================================================================
