----------------------------- MODULE MCAccounts -----------------------------
(* Two handlers at once, two addresses to move to, one of which also signs    *)
(* up.                                                                        *)
EXTENDS Accounts
=============================================================================
