------------------------------ MODULE MCStore -------------------------------
(* Instances of Store. *)
EXTENDS Store, TLC

CONSTANTS upload1, upload2, work1, work2, data, mount, default, tenant

TwoUploads == {upload1, upload2}
TwoWorks == {work1, work2}

(* Nothing the store does depends on which upload or which name it is.     *)
Alike == Permutations(TwoUploads) \cup Permutations(TwoWorks)

TwoRoots == {data, mount}
TwoDomains == {default, tenant}

Work(does, domains) == [does |-> does, domains |-> domains]

(* The library and its relocation, also with a tenant's subtree; a tenant  *)
(* that comes and goes beside another, or with its sessions; sessions made *)
(* of a library that changes.                                              *)
SmallWorkloads == {Work({"remove", "relocate"}, {default}),
                   Work({"domain", "relocate"}, {tenant}),
                   Work({"domain", "remove"}, TwoDomains),
                   Work({"domain", "session"}, {tenant}),
                   Work({"session", "remove"}, {default})}

Relocation == {Work({"relocate"}, {default})}
=============================================================================
