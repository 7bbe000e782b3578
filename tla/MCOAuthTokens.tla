---------------------------- MODULE MCOAuthTokens ----------------------------
(* Authorizations of two clients.  Codes and clients are interchangeable.    *)
EXTENDS OAuthTokens, TLC

Symmetry == Permutations(Code) \cup Permutations(Client)
===============================================================================
