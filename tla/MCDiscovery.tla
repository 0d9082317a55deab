---------------------------- MODULE MCDiscovery ----------------------------
(* Discovery alone, with tools that depend on each other.                  *)
EXTENDS Discovery

CONSTANTS d1, a, b \* the target domain and two names below it

MCSelections == {{"subfinder", "dnsx", "httpx", "katana"}, {"httpx"}}
=============================================================================
