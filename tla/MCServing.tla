----------------------------- MODULE MCServing ------------------------------
(* Instances of Serving for TLC.  Requests: three of a small offer on each *)
(* of fourteen deployments: fresh ones (with and without an administrator  *)
(* that the environment names), a tenant's domain, two administrators, an  *)
(* administrator inside a tenant's domain, domains to be, a library with   *)
(* sessions, captures to be combined, several writers of one text, an      *)
(* account that leaves and returns, and a restart around a removal.        *)
EXTENDS Serving

CONSTANTS t1, t2, t3

People == {"root", "ann", "bob"}
TwoDomains == {"default", "lab"}

Ask == [op |-> "", token |-> t1, name |-> "bob", role |-> "user",
        domain |-> "lab", id |-> 1, ids |-> {1}, force |-> FALSE]
AsRoot(op) == [Ask EXCEPT !.op = op]
AsAnn(op) == [Ask EXCEPT !.op = op, !.token = t2]
Forced(ask) == [ask EXCEPT !.force = TRUE]
Naming(ask, n) == [ask EXCEPT !.name = n]
Opening(ask, ids) == [ask EXCEPT !.ids = ids]

Nobody == [n \in People |-> Absent]
Staff == [Nobody EXCEPT !["root"] = Account("admin", "default"),
                        !["ann"] = Account("user", "lab")]
NoTokens == [t \in Tokens |-> Unissued]
LoggedIn == [NoTokens EXCEPT ![t1] = "root", ![t2] = "ann"]

Fresh == [users |-> Nobody, tokens |-> NoTokens, domains |-> {}, pcaps |-> {},
          sessions |-> {}, up |-> FALSE, admin |-> "", closed |-> FALSE,
          restarts |-> 1,
          offers |-> {Naming(AsRoot("register"), "ann"), AsRoot("register"),
                      Naming(AsRoot("login"), "ann")}]

Tenant == [Fresh EXCEPT !.users = Staff, !.tokens = LoggedIn, !.up = TRUE,
              !.domains = {[id |-> "lab", owner |-> "ann"]}, !.restarts = 0,
              !.offers = {AsRoot("adminUsersPost"), AsRoot("domainsDelete"),
                          AsAnn("domainUsersPost"), AsAnn("domainUsersDelete")}]

AsBob(op) == [Ask EXCEPT !.op = op, !.token = t3]
WithBob(domain) ==
    [Tenant EXCEPT !.users["bob"] = Account("admin", domain), !.tokens[t3] = "bob"]

TwoAdmins ==
    [WithBob("default") EXCEPT !.restarts = 1, !.offers =
        {AsRoot("adminUsersDelete"), Naming(AsBob("adminUsersDelete"), "root"),
         Naming(AsRoot("adminUsersDelete"), "root"), AsAnn("logout"),
         [AsRoot("adminUsersPost") EXCEPT !.role = "admin", !.domain = "default"]}]

(* An administrator in the tenant's domain, which somebody else owns. *)
Lodger ==
    [WithBob("lab") EXCEPT !.offers =
        {Naming(AsBob("domainUsersDelete"), "ann"), AsRoot("domainsDelete"),
         Opening(AsBob("sessionsPost"), {})}]

NoTenant ==
    [Tenant EXCEPT !.domains = {}, !.users["ann"].domain = "default", !.offers =
        {AsRoot("domainsPost"), Naming(AsRoot("domainsPost"), "ann"),
         AsRoot("domainsDelete"), Naming(AsRoot("adminUsersDelete"), "ann")}]

Newcomer ==
    [NoTenant EXCEPT !.offers =
        {AsRoot("domainsPost"), AsBob("login"), AsBob("pcapsPost"),
         AsRoot("adminUsersDelete")}]

Library ==
    [Tenant EXCEPT !.pcaps = {Object(1, "lab", Seed)},
                   !.sessions = {Object(1, "lab", Seed)}, !.offers =
        {AsAnn("pcapsPost"), AsAnn("pcapDelete"), Forced(AsRoot("domainsDelete"))}]

Analyses ==
    [Library EXCEPT !.offers =
        {AsAnn("sessionsPost"), AsAnn("sessionDelete"), AsRoot("domainsDelete"),
         Forced(AsRoot("domainsDelete"))}]

(* A session of two captures, and requests from another domain. *)
Combined ==
    [Library EXCEPT !.pcaps = {Object(1, "lab", Seed), Object(2, "lab", Seed)},
        !.offers =
        {Opening(AsAnn("sessionsPost"), {1, 2}), AsAnn("pcapDelete"),
         AsRoot("pcapDelete"), Forced(AsRoot("domainsDelete"))}]

Writers ==
    [Library EXCEPT !.offers =
        {AsAnn("notesPut"), Forced(AsAnn("notesPut")), AsAnn("sessionDelete")}]

(* One who leaves the domain and comes back under the same name. *)
Leaver ==
    [Tenant EXCEPT !.users["bob"] = Account("user", "lab"), !.offers =
        {AsRoot("register"), AsAnn("domainUsersDelete")}]

(* A domain that comes and goes, and a process that dies. *)
Restarted ==
    [Tenant EXCEPT !.restarts = 1, !.offers =
        {AsRoot("domainsDelete"), Naming(AsRoot("domainsPost"), "ann"),
         Naming(AsRoot("adminUsersDelete"), "ann")}]

SomeDeployments ==
    {Fresh, [Fresh EXCEPT !.admin = "root", !.closed = TRUE],
     [Fresh EXCEPT !.admin = "bob"],
     Tenant, TwoAdmins, Lodger, NoTenant, Newcomer,
     Library, Analyses, Combined, Writers, Leaver, Restarted}

(* Two connections on a thread each; two that wait for one thread. *)
TwoLoads == {[connections |-> 2, threads |-> 2, asked |-> 1],
             [connections |-> 2, threads |-> 1, asked |-> 2]}

TwoKeys == {"user", "op"}
TheRate == [k \in TwoKeys |-> IF k = "user" THEN 8 ELSE 4]
TheBurst == [k \in TwoKeys |-> IF k = "user" THEN 12 ELSE 4]
TwoActors == {"ann", "bob"}
TwoRules == <<"probe", "limit-hammering">>
TheLimit == [k \in Kinds |-> IF k = "probe" THEN 2 ELSE 1]
TheCalls == [p \in Parts |-> IF p = "traffic" THEN 6 ELSE IF p = "flows" THEN 3 ELSE 4]
=============================================================================
