-------------------------- MODULE MCBrowserSession --------------------------
(* An instance of the browser's session for TLC.                           *)
EXTENDS BrowserSession

CONSTANTS t1, t2, q1, q2

(* Two requests of one page, and another page that signs in and out, is    *)
(* reloaded and tries the cookie.                                          *)
OnePageAsks == [q \in Request |-> t1]
=============================================================================
