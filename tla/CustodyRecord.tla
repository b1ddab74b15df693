--------------------------- MODULE CustodyRecord ---------------------------
(***************************************************************************)
(* What the ledger of possession promises, without transfers, batches,     *)
(* versions, clocks or statuses: who has what, and an account of how it    *)
(* came to be so.  An account is a sequence of [was, is] entries.          *)
(***************************************************************************)
EXTENDS Naturals, Sequences

CONSTANTS
    Things,     \* what is kept an account of
    States,     \* the states a thing can be in
    Final,      \* the states a thing does not leave of its own accord
    Nothing     \* the state of a thing there is no account of

VARIABLES
    current,    \* the state of each thing
    account,    \* the entries of each thing
    struck      \* things whose account was destroyed, and that never return

custodyVars == <<current, account, struck>>

Init ==
    /\ current = [t \in Things |-> Nothing]
    /\ account = [t \in Things |-> <<>>]
    /\ struck = {}

(* Things that never were in custody come into it together.                *)
Enter(S) ==
    /\ \A t \in S : current[t] = Nothing /\ t \notin struck
    /\ \A t \in S : current'[t] \in States
    /\ \A t \in S : account'[t] = <<[was |-> Nothing, is |-> current'[t]]>>
    /\ UNCHANGED struck

(* Things in custody move together: each leaves the state it is in, and    *)
(* its account gains the one entry that says so.                           *)
Move(S) ==
    /\ \A t \in S : current[t] # Nothing
    /\ \A t \in S : current'[t] \in States \ {current[t]}
    /\ \A t \in S : current[t] \in Final => current'[t] \in Final
    /\ \A t \in S : account'[t] = Append(account[t], [was |-> current[t], is |-> current'[t]])
    /\ UNCHANGED struck

(* One entry of each of some things is corrected, and the thing is where   *)
(* the corrected entry says.                                               *)
Correct(S) ==
    /\ \A t \in S : current'[t] \in States
    /\ \A t \in S : \E i \in DOMAIN account[t] :
          account'[t] = [account[t] EXCEPT ![i].is = current'[t]]
    /\ UNCHANGED struck

(* Things leave custody together, their accounts with them, for good.      *)
Strike(S) ==
    /\ \A t \in S : current[t] # Nothing
    /\ \A t \in S : current'[t] = Nothing /\ account'[t] = <<>>
    /\ struck' = struck \cup S

Next ==
    /\ current' \in [Things -> States \cup {Nothing}]
    /\ DOMAIN account' = Things
    /\ \E S \in SUBSET Things :
          /\ Enter(S) \/ Move(S) \/ Correct(S) \/ Strike(S)
          /\ \A t \in Things \ S : current'[t] = current[t] /\ account'[t] = account[t]

Spec == Init /\ [][Next]_custodyVars
=============================================================================
