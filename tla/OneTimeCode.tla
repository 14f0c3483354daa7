----------------------------- MODULE OneTimeCode ----------------------------
(***************************************************************************)
(* What email sign-in promises about the codes of one address: a code is     *)
(* issued once, signs in at most once, and once it is used up, replaced or   *)
(* locked it never works again.                                              *)
(***************************************************************************)
CONSTANTS
    Challenge,
    Request

VARIABLES
    usable,     \* codes that can still sign in, time permitting
    signIns     \* sign-ins that took place, [by, code]: two by one code differ

codeVars == <<usable, signIns>>

Init == usable = {} /\ signIns = {}

(* A code is sent out; older ones may be withdrawn to make room, and the     *)
(* code itself when newer ones were stored first.                            *)
Issue(c) ==
    /\ c \notin usable /\ \A s \in signIns : s.code # c
    /\ usable' \subseteq usable \cup {c}
    /\ signIns' = signIns

(* Codes are withdrawn, or locked by wrong guesses.                          *)
Withdraw == usable' \subseteq usable /\ signIns' = signIns

(* A request signs in, and takes the code out of use by the same step.       *)
SignIn(r, c) ==
    /\ c \in usable
    /\ \A s \in signIns : s.by # r /\ s.code # c
    /\ usable' \subseteq usable \ {c}
    /\ signIns' = signIns \cup {[by |-> r, code |-> c]}

Next ==
    \/ Withdraw
    \/ \E c \in Challenge : Issue(c) \/ \E r \in Request : SignIn(r, c)

Spec == Init /\ [][Next]_codeVars
=============================================================================
