-------------------------- MODULE WalletLifecycle --------------------------
(***************************************************************************)
(* What the wallet store promises to anything that will trade through it,  *)
(* with no requests, queue or workers: the status of every linked wallet   *)
(* moves along the onboarding state machine of internal/domain/wallet.go,  *)
(* and an account never has two active bot wallets on the chain.           *)
(*                                                                         *)
(* WalletService implements this specification.                            *)
(***************************************************************************)

CONSTANTS
  Users,      \* accounts
  Wallets,    \* the (user, chain, address) keys a wallets row can have
  Owner       \* the account in a key

VARIABLES
  status,     \* wallets.status, or "none" while there is no row
  role        \* wallets.role

lifecycleVars == <<status, role>>

Statuses == {"pending", "active", "disabled"}
Roles    == {"owner", "bot"}

\* Another wallet of w's account is its active bot wallet.
OtherActiveBot(w) ==
  \E v \in Wallets \ {w} :
    /\ Owner[v] = Owner[w]
    /\ role[v] = "bot"
    /\ status[v] = "active"

Init ==
  /\ status = [w \in Wallets |-> "none"]
  /\ role   = [w \in Wallets |-> "owner"]

Link(w, rl) ==
  /\ status[w] = "none"
  /\ status' = [status EXCEPT ![w] = "pending"]
  /\ role'   = [role EXCEPT ![w] = rl]

Activate(w) ==
  /\ status[w] = "pending"
  /\ ~(role[w] = "bot" /\ OtherActiveBot(w))
  /\ status' = [status EXCEPT ![w] = "active"]
  /\ UNCHANGED role

\* Final: nothing in the program sends a disabled wallet back to pending.
Disable(w) ==
  /\ status[w] \in {"pending", "active"}
  /\ status' = [status EXCEPT ![w] = "disabled"]
  /\ UNCHANGED role

Next ==
  \E w \in Wallets :
    \/ \E rl \in Roles : Link(w, rl)
    \/ Activate(w)
    \/ Disable(w)

Spec == Init /\ [][Next]_lifecycleVars
=============================================================================
