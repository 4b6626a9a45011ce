-------------------------- MODULE WalletRefinesBook --------------------------
(***************************************************************************)
(* WalletService implements WalletBook for users who make one request at a *)
(* time.  A change of default takes effect in the book at the first of its *)
(* two writes: while the request is on its way to the second, the book     *)
(* already shows the default it will write.                                *)
(***************************************************************************)
EXTENDS WalletService

\* The row that request r is about to make its user's default.
Pending(r) ==
    CASE At(r, "mark") -> OwnRow(r)
      [] req[r].pc \in {"pick", "promote"} -> Oldest(req[r].user)
      [] OTHER -> {}

Entries ==
    {[n |-> w.id, user |-> w.userId, key |-> w.publicKey] : w \in wallets}

Coming(u) == UNION {Pending(r) : r \in {x \in Requests : req[x].user = u}}
Shown(u) == Defaults(u) \cup Coming(u)

Default ==
    [u \in Users |->
       IF Shown(u) = {} THEN 0 ELSE (CHOOSE w \in Shown(u) : TRUE).id]

Lost == {u \in torn : Coming(u) = {}}

Book == INSTANCE WalletBook
    WITH issued <- nextId - 1, entries <- Entries, default <- Default,
         lost <- Lost

\* Every step of the service is a step of the book or leaves it unchanged.
RefinesBook == Book!Spec
=============================================================================
