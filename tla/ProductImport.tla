--------------------------- MODULE ProductImport ----------------------------
(***************************************************************************)
(* What the account machine promises, with nothing of how it does it: an   *)
(* execution brings in the shared products one after the other, none       *)
(* skipped and none brought in again, and opens the portfolio when it has  *)
(* them all. It may stop anywhere.                                         *)
(***************************************************************************)
EXTENDS Integers

CONSTANTS
  Execution,  \* executions of the machine
  NProducts   \* products to bring in

VARIABLES
  imported,  \* products each execution has brought in
  open       \* executions that have opened their portfolio

importVars == <<imported, open>>

ImportInit ==
  /\ imported = [x \in Execution |-> 0]
  /\ open = {}

Import(x) ==
  /\ imported[x] < NProducts
  /\ imported' = [imported EXCEPT ![x] = @ + 1]
  /\ UNCHANGED open

Open(x) ==
  /\ imported[x] = NProducts
  /\ x \notin open
  /\ open' = open \cup {x}
  /\ UNCHANGED imported

ImportNext == \E x \in Execution : Import(x) \/ Open(x)

ImportSpec == ImportInit /\ [][ImportNext]_importVars

=============================================================================
