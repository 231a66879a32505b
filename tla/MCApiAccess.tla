---------------------------- MODULE MCApiAccess ----------------------------
(* API deployments for TLC.                                                    *)
EXTENDS ApiAccess

Interchangeable == Permutations(Reqs)

Base == [second |-> "off", users |-> {"ann"}, loggedIn |-> {}, addresses |-> {"home"}, sends |-> [login |-> 1], faults |-> {}]

(* Codes that are sent, and rotation of the password at the login.              *)
Sending == [Base EXCEPT !.second = "sent", !.sends = [login |-> 2, rotate |-> 1, verify |-> 1], !.faults = {"message"}]
(* An app: many codes for two logins, a rotation, enrolling.                 *)
App == [Base EXCEPT !.second = "totp", !.sends = [login |-> 1, long |-> 1, verify |-> 4]]
AppRotates == [App EXCEPT !.sends = [login |-> 1, rotate |-> 1, verify |-> 2], !.faults = {"statement"}]
Enrolling == [App EXCEPT !.sends = [login |-> 1, enrol |-> 2, unenrol |-> 1, verify |-> 1]]
(* Passwords only: sessions that come and go; two addresses.                    *)
Sessions == [Base EXCEPT !.loggedIn = {"ann"}, !.sends = [login |-> 1, long |-> 1, logout |-> 1, kill |-> 1, read |-> 1, cleanup |-> 1],
                         !.faults = {"statement", "restart"}]
Rotation == [Base EXCEPT !.addresses = {"home", "away"}, !.loggedIn = {"ann"}, !.sends = [login |-> 1, rotate |-> 1, me |-> 1, basic |-> 1]]
Administration == [Base EXCEPT !.loggedIn = {"ann"}, !.sends = [login |-> 1, change |-> 1, remove |-> 1, basic |-> 1]]
(* Tickets of two users, API tokens.                                            *)
Sockets == [Base EXCEPT !.users = {"ann", "bob"}, !.loggedIn = {"ann", "bob"}, !.sends = [ticket |-> 4, socket |-> 1]]
Tokens == [Base EXCEPT !.loggedIn = {"ann"}, !.sends = [post |-> 2, put |-> 1, basic |-> 1]]
Revoking == [Tokens EXCEPT !.sends = [post |-> 1, put |-> 1, revoke |-> 1, basic |-> 1]]

All == {Sending, App, AppRotates, Enrolling, Sessions, Rotation, Administration, Sockets, Tokens, Revoking}
=============================================================================
