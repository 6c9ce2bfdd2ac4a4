------------------------- MODULE MCAdministration --------------------------
(* Scenes for Administration: two handlers of the same user with the token   *)
(* operations, two with the others, a vault account, and one handler beside  *)
(* the refresh loop.                                                         *)
EXTENDS Administration
CONSTANTS u1, w1, w2, loop, githubToken
Nowhere == [i \in Id |-> ""]
HandedIn == Token \ {githubToken}
OneToken == {CHOOSE t \in HandedIn : TRUE}
Scene(c, o, n) == [crew |-> c, operations |-> o, ops |-> n, tokens |-> OneToken,
                   vaulted |-> {}, given |-> Nowhere, ambient |-> Nowhere]
AllScenes ==
    { Scene({w1, w2}, {"login", "poll", "setToken", "logout", "chat"}, 3),
      Scene({w1, w2}, {"enable", "disable", "create", "delete", "chat"}, 3),
      [Scene({w1, w2}, {"create", "delete", "setToken", "logout"}, 2) EXCEPT !.vaulted = {u1}, !.tokens = HandedIn],
      [Scene({w1, w2}, {"setToken", "logout"}, 2) EXCEPT !.ambient[u1] = githubToken],
      [Scene({w1}, {"create", "delete", "setToken", "logout"}, 3)
         EXCEPT !.vaulted = {u1}, !.given[u1] = githubToken],
      Scene({w1, loop}, {"enable", "disable", "create", "delete", "setToken", "refresh"}, 2) }
=============================================================================
