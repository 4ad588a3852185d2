----------------------------- MODULE AccessRules ------------------------------
(***************************************************************************)
(* Which permission a request needs: RbacMiddleware::requiredPermission    *)
(* over the rules of config/common/params.php.                             *)
(*                                                                         *)
(* A path is a sequence of pieces, cut so that str_starts_with() on the    *)
(* text is IsPrefix on the pieces.                                         *)
(***************************************************************************)
EXTENDS Sequences, SequencesExt, Integers

CONSTANT None                        (* no permission is needed              *)

Rule(prefix, permission) == [prefix |-> prefix, permission |-> permission]

(* Mutant: the shortest prefix comes first.                                 *)
WebRulesShortestFirst ==
    <<Rule(<<"/dashboard">>, "dashboard.access"),
      Rule(<<"/dashboard", "/activity-log">>, "activity_log.view"),
      Rule(<<"/dashboard", "/users">>, "users.manage"),
      Rule(<<"/dashboard", "/roles">>, "roles.manage"),
      Rule(<<"/dashboard", "/permissions">>, "permissions.manage")>>

WebRules ==
    <<Rule(<<"/dashboard", "/activity-log">>, "activity_log.view"),
      Rule(<<"/dashboard", "/users">>, "users.manage"),
      Rule(<<"/dashboard", "/roles">>, "roles.manage"),
      Rule(<<"/dashboard", "/permissions">>, "permissions.manage"),
      Rule(<<"/dashboard">>, "dashboard.access")>>

ApiRules ==
    [GET |-> <<Rule(<<"/api/v1", "/users">>, "users.view"),
               Rule(<<"/api/v1", "/roles">>, "roles.view"),
               Rule(<<"/api/v1", "/permissions">>, "permissions.view")>>,
     POST |-> <<Rule(<<"/api/v1", "/users">>, "users.manage"),
                Rule(<<"/api/v1", "/roles">>, "roles.manage")>>,
     PATCH |-> <<Rule(<<"/api/v1", "/users">>, "users.manage")>>,
     DELETE |-> <<Rule(<<"/api/v1", "/users">>, "users.manage")>>]

IsApiPath(path) == IsPrefix(<<"/api/v1">>, path)

PublicWebPaths == {<<"/login">>, <<"/dashboard", "/login">>}

(* The method counts for the API only.                                      *)
RulesFor(method, path) == IF IsApiPath(path) THEN ApiRules[method] ELSE WebRules

Matching(rules, path) == {i \in DOMAIN rules : IsPrefix(rules[i].prefix, path)}

(* The first rule that matches.                                             *)
RequiredPermission(method, path) ==
    LET rules == RulesFor(method, path)
        matching == Matching(rules, path)
    IN IF matching = {} THEN None
       ELSE rules[CHOOSE i \in matching : \A j \in matching : i <= j].permission

(* What the list means: the rule of the longest prefix, wherever it stands. *)
IntendedPermission(method, path) ==
    LET rules == RulesFor(method, path)
        matching == Matching(rules, path)
        Length(i) == Len(rules[i].prefix)
    IN IF path \in PublicWebPaths \/ matching = {} THEN None
       ELSE rules[CHOOSE i \in matching :
                     \A j \in matching : Length(j) <= Length(i)].permission
===============================================================================
