----------------------------- MODULE MCApiStores -----------------------------
(* A small instance of the records of the API process.                     *)
EXTENDS ApiStores

CONSTANTS host, base, custom, user

MCGrants == {[user |-> user, kind |-> k, scope |-> host] : k \in {"account", "sudo"}}
MCDirStatus == [u \in {user} |-> "none"]
Account(groups) == [user |-> user, groups |-> groups, sudo |-> FALSE, root |-> FALSE, idle |-> FALSE]
(* The same name twice, as two sources of accounts may report it.          *)
MCInventories == {<<Account({"users"}), Account({"wheel"})>>, <<>>}
Form(owner, exc, tags) == [owner |-> owner, exc |-> exc, tags |-> tags]
MCOwnerForms == {Form("set", Absent, Absent), Form(Absent, "set", {"isms"})}
MCImports == {<<[host |-> host, form |-> Form("set", "set", Absent)],
                [host |-> host, form |-> Form(Absent, "", Absent)]>>}
=============================================================================
