------------------------------- MODULE CommitLog -------------------------------
(***************************************************************************)
(* What a document promises to clients that commit under an operation id:  *)
(* its versions are a log that only grows, one version at a time, and an   *)
(* operation is decided once.  A commit becomes a version, the one after   *)
(* the version it was made on and with the content it was registered with, *)
(* in the same instant in which its receipt says so; while an operation is *)
(* undecided nothing else becomes a version.  Nothing is said of outboxes, *)
(* root references, handlers, retries or restarts: those are means to this *)
(* end of EditorDO and PlatformDocument.                                   *)
(***************************************************************************)
EXTENDS Integers

CONSTANT OpIds

VARIABLES
    log,       \* version -> content
    receipts   \* operation id -> state, base version and content

absVars == <<log, receipts>>

Undecided == {o \in OpIds : receipts[o].state = "pending"}

(* Version v is written after all others. *)
Extends(v) ==
    /\ DOMAIN log = 1 .. v - 1
    /\ DOMAIN log' = 1 .. v
    /\ \A w \in DOMAIN log : log'[w] = log[w]

Becomes(o, state) == receipts' = [receipts EXCEPT ![o].state = state]

AbsInit == DOMAIN log = {} /\ \A o \in OpIds : receipts[o].state = "none"

(* A version without a receipt: a creation or a plain write. *)
Write ==
    /\ Undecided = {}
    /\ \E v \in DOMAIN log' : Extends(v)
    /\ UNCHANGED receipts

(* An operation is registered, or refused at once. *)
Register(o) ==
    /\ receipts[o].state = "none"
    /\ \/ Undecided = {} /\ receipts'[o].state = "pending"
       \/ receipts'[o].state = "rejected"
    /\ receipts' = [receipts EXCEPT ![o] = receipts'[o]]
    /\ UNCHANGED log

Commit(o) ==
    LET v == receipts[o].base + 1
    IN  /\ o \in Undecided
        /\ Extends(v) /\ log'[v] = receipts[o].row
        /\ Becomes(o, "committed")

Reject(o) ==
    /\ o \in Undecided
    /\ Becomes(o, "rejected")
    /\ UNCHANGED log

AbsNext == Write \/ \E o \in OpIds : Register(o) \/ Commit(o) \/ Reject(o)

AbsSpec == AbsInit /\ [][AbsNext]_absVars
================================================================================
