---------------------------- MODULE MCHttpRoutes ----------------------------
\* Instance for TLC: for every route, the bodies at the edges of its checks.
EXTENDS HttpRoutes

F(kind, length) == [kind |-> kind, length |-> length]
Nothing == [f \in Fields |-> F("absent", 0)]
Texts(lengths) == {F("absent", 0), F("other", 0)} \cup {F("text", n) : n \in lengths}

Credentials == {[Nothing EXCEPT !.username = u, !.password = p] :
                  u \in Texts({0, 3}), p \in Texts({0, 8})}
Forms == {[Nothing EXCEPT !.username = u, !.email = e, !.password = p] :
            u \in Texts({2, 3, 100, 101}), p \in Texts({7, 8}),
            e \in Texts({255}) \cup {F("email", n) : n \in {6, 255, 256}}}
Tokens == {[Nothing EXCEPT !.refresh_token = t] : t \in Texts({0, 96})}
Roles == {[Nothing EXCEPT !.roles = r] :
            r \in {F("absent", 0), F("other", 0), F("strings", 0), F("strings", 2)}}

Bodies(route) ==
  CASE route = "passwordGrant" -> Credentials
    [] route = "register" -> Forms
    [] route \in {"refreshGrant", "revoke"} -> Tokens
    [] route = "patchRoles" -> Roles
    [] OTHER -> {Nothing}

MCRequests ==
  UNION {[route: {r}, json: {TRUE}, body: Bodies(r),
          path: IF r = "patchRoles" THEN {"plain", "undecodable"} ELSE {"plain"},
          bearer: IF r \in Protected THEN {"none", "noSub", "user", "admin"} ELSE {"none"}] :
           r \in Routes}
  \cup [route: Routes, json: {FALSE}, body: {Nothing}, path: {"plain"}, bearer: {"none"}]
=============================================================================
