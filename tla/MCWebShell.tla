----------------------------- MODULE MCWebShell -----------------------------
(* Two accounts and up to two tasks in flight. *)
EXTENDS WebShell, TLC

AccountSymmetry == Permutations(Accounts)
SlotSymmetry == Permutations(Slots)
ShellSymmetry == AccountSymmetry \cup SlotSymmetry

\* Once sign-ins have crossed, no action and no property reads the name that the
\* session holds or the account chosen last: such states are taken for one.
ShellView ==
    <<ui, panel, tasks, crossed, IF crossed THEN session.user ELSE <<session, chosen>>>>
=============================================================================
