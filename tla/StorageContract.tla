--------------------------- MODULE StorageContract ---------------------------
(***************************************************************************)
(* The TON storage contracts as internal/ton sees them: one contract per   *)
(* bag (its address is derived from the bag id and the wallet), holding    *)
(* the list of the providers that are paid to keep the bag.                *)
(*                                                                         *)
(* HireProvider and RemoveProvider both fetch the list, compute a new one  *)
(* and send a transaction that REPLACES the list: two steps, with whatever *)
(* other callers do in between.                                            *)
(*                                                                         *)
(* SendManyWaitTransaction waits for the transaction of the wallet.  What  *)
(* it returns says nothing of the contract: an error (the wait timed out,  *)
(* the context was cancelled) may be of a transaction that takes effect    *)
(* later, when the caller has gone on or the process was restarted; and a  *)
(* transaction of the wallet that is there is a message to the contract,   *)
(* which may still be on its way, or be bounced.                           *)
(***************************************************************************)
EXTENDS Deployment

CONSTANT LateSlots   \* bound: transactions that are late at the same time

VARIABLES
  chain,             \* [Bags -> set of hired providers]; {} when the contract
                     \* is not deployed or all its funds were withdrawn
  late               \* [LateSlots -> transaction whose sender has gone on]

chainVars == <<chain, late>>

Transaction == [bag : Bags, list : SUBSET Providers]

NoTransaction == [bag |-> "none"]

ChainTypeOK ==
  /\ chain \in [Bags -> SUBSET Providers]
  /\ late \in [LateSlots -> Transaction \cup {NoTransaction}]

ChainInit ==
  /\ chain = [b \in Bags |-> {}]
  /\ late = [t \in LateSlots |-> NoTransaction]

\* The list HireProvider sends: the new provider with its new rates, then the
\* others of the contract.
HireList(b, p) == chain[b] \cup {p}

\* The list RemoveProvider sends; an empty one is sent as a withdrawal of all
\* funds (WithdrawAllFunds).
RemovalList(b, p) == chain[b] \ {p}

\* A transaction that sets the provider list of bag b takes effect while its
\* sender waits for it, later, or never; whatever the sender is told.
SendTransaction(b, list) ==
  \/ chain' = [chain EXCEPT ![b] = list] /\ UNCHANGED late
  \/ \E t \in LateSlots :
       /\ late[t] = NoTransaction
       /\ late' = [late EXCEPT ![t] = [bag |-> b, list |-> list]]
       /\ UNCHANGED chain
  \/ UNCHANGED chainVars

\* A late transaction takes effect, in any order; or it never will.
Lands(t) ==
  /\ late[t] # NoTransaction
  /\ chain' = [chain EXCEPT ![late[t].bag] = late[t].list]
  /\ late' = [late EXCEPT ![t] = NoTransaction]

Expires(t) ==
  /\ late[t] # NoTransaction
  /\ late' = [late EXCEPT ![t] = NoTransaction]
  /\ UNCHANGED chain
=============================================================================
