----------------------------- MODULE MCPlatform ------------------------------
(***************************************************************************)
(* Both clouds, with the provider named and to be found out, and a machine *)
(* where nothing is stored.                                                *)
(***************************************************************************)
EXTENDS Platform

Machine(local, named, cloud) == [local |-> local, named |-> named, cloud |-> cloud]

Named == {Machine(FALSE, TRUE, "aws"), Machine(FALSE, TRUE, "gcp")}
Unnamed == {Machine(FALSE, FALSE, "aws"), Machine(FALSE, FALSE, "gcp")}
MCPlaces == Named \cup Unnamed \cup {Machine(TRUE, FALSE, "aws")}
=============================================================================
