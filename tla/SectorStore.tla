---------------------------- MODULE SectorStore ----------------------------
(***************************************************************************)
(* What a namespace in 'sector' mode promises its users: every sector      *)
(* write is atomic.  A write that reached the point of no return (it has   *)
(* been logged) is an intent; the sector keeps its old value until the     *)
(* intent is committed, and it is committed exactly as logged.  Power      *)
(* failures, checks, repairs and rewrites of the log are invisible at this *)
(* level: they are stuttering steps, or commit a pending intent.           *)
(* BttArena implements this specification.                                 *)
(***************************************************************************)

CONSTANTS
    Sectors,    (* logical block addresses of one arena            *)
    Writers,    (* BTT lanes: at most one pending write for each   *)
    Vals        (* sector contents                                 *)

VARIABLES
    sector,     (* Sectors -> Vals, what a read returns            *)
    intents     (* the logged writes that are not yet visible      *)

Intent == [writer : Writers, addr : Sectors, val : Vals]

Init ==
    /\ sector \in [Sectors -> Vals]
    /\ intents = {}

\* A writer logs a write: it has no other pending write and no other writer
\* has one for the same sector.
Log(i) ==
    /\ \A j \in intents : j.writer # i.writer /\ j.addr # i.addr
    /\ intents' = intents \cup {i}
    /\ UNCHANGED sector

\* A logged write becomes visible, all at once.
Commit(i) ==
    /\ i \in intents
    /\ sector' = [sector EXCEPT ![i.addr] = i.val]
    /\ intents' = intents \ {i}

Next == \E i \in Intent : Log(i) \/ Commit(i)

Spec == Init /\ [][Next]_<<sector, intents>>
=============================================================================
