---------------------------- MODULE MCRapiCache ----------------------------
(* Instances of RapiCache for TLC.                                         *)
EXTENDS RapiCache, Sequences

Text(user, password, host) == [user |-> user, password |-> password, host |-> host]

(* Two users of one cluster's host, one of them with a password that the   *)
(* client takes for none; another host, read only or with the same user.   *)
FourCreds == {Text("u", "p", "h1"), Text("v", "None", "h1"),
              Text("u", "p", "h2"), Text("", "", "h2")}

(* A hash that tells all credentials apart.                                *)
OwnHash == [cred \in Cred |-> cred.user \o cred.password \o cred.host]
OwnHashes == {OwnHash[cred] : cred \in Cred}
=============================================================================
