----------------------------- MODULE MCProcess -----------------------------
(***************************************************************************)
(* Small instances of Process.                                             *)
(***************************************************************************)
EXTENDS Process, TLC

CONSTANTS t1, t2, t3, r1, r2, q1

B(o) == [op |-> o, for |-> <<>>]
BF(o, list) == [op |-> o, for |-> list]

MCTransact == {t1, t2, t3}
MCResource == {r1, r2}
MCQueue == {q1}
TransactSymmetry == Permutations(MCTransact)

\* Two services that share a resource: one with two channels and a queue, one
\* that an event sends its transacts to and that seizes twice in a row, with a way
\* to go in between.
MCService ==
  [one |-> <<B("GENERATE"), BF("QUEUE", <<q1>>), BF("SEIZE", <<r1, r2>>),
             BF("DEPART", <<q1>>), B("ADVANCE"), BF("RELEASE", <<r1, r2>>),
             B("TERMINATE")>>,
   two |-> <<BF("SEIZE", <<r2>>), B("ASSIGN"), BF("RELEASE", <<r2>>), B("ADVANCE"),
             BF("SEIZE", <<r1>>), BF("RELEASE", <<r1>>), B("TERMINATE")>>]

\* Events send transacts to the second only, or to both.
MCEntry == {"two"}
MCEntries == {"one", "two"}

\* It is one of the programs OneOwner and QueueLength are about.
ASSUME ServiceIsPaired == Program = MCService => SeizesArePaired /\ QueuesArePaired

\* A resource is held while another is seized and released.
MCNested ==
  [one |-> <<B("GENERATE"), BF("SEIZE", <<r1>>), BF("SEIZE", <<r2>>), B("ADVANCE"),
             BF("RELEASE", <<r2>>), BF("RELEASE", <<r1>>), B("TERMINATE")>>]
=============================================================================
