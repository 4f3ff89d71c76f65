------------------------------- MODULE MCRoles -------------------------------
(***************************************************************************)
(* Two users and two globs of which one is also a user's name, one         *)
(* password in plain text and one hashed; environments with a user in      *)
(* several roles, with entries that repeat, with invalid ones, among them  *)
(* a whole header, and with variables that are empty.                      *)
(***************************************************************************)
EXTENDS Roles

CONSTANT Malformed    \* a string without the separator

MCUsers == {"ann", "bob", "role*"}
MCTexts == {"p", "q", "$p", "$iam"}
MCDollar == {"$p", "$iam"}
MCPasswordOf == [t \in {"$p"} |-> "p"]
MCArns == {"role1", "other"}
MCMatching == {<<"role*", "role1">>}

MCInvalid == {NoText, Malformed}

Key(user, secret) == [user |-> user, secret |-> secret]

Header(user, pass) == [scheme |-> "Basic", user |-> user, pass |-> pass]

MCEnvironments ==
    [ten   : {{Key("ann", "p"), Malformed}, {Key("role*", "$iam")}},
     hour  : {{Key("ann", "p")}, {Key("ann", "q")}, {Key("bob", "$p")}, {NoText}},
     day   : {{NoText}, {Key("bob", "q"), Header("bob", "q")}},
     write : {<<Key("bob", "p")>>,
              <<Key("ann", "$p"), Malformed, Key("role*", "$iam")>>,
              <<Key("bob", "p"), Key("ann", "q"), Key("bob", "$p")>>,
              <<Key("ann", "p"), Key("ann", "p")>>,
              <<NoText>>}]
=============================================================================
