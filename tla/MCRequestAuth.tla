--------------------------- MODULE MCRequestAuth ----------------------------
(* RequestAuth for TLC. *)
EXTENDS RequestAuth, TLC

CONSTANTS r1, r2, k1, k2, k3, realm, client, l1, l2

(* "A" is the organization "a" written in capitals; "x" is not a UUID. *)
Canonical == "a" :> "a" @@ "A" :> "a" @@ "b" :> "b" @@ "x" :> Invalid

Claims == [exp |-> 2, iat |-> None, iss |-> realm, aud |-> {client}, user |-> "sub",
           tenants |-> {"a", ""}]
Get == [via |-> "http", header |-> "bearer", form |-> "jwt", kid |-> k1, signer |-> k1,
        claims |-> Claims, org |-> None, verb |-> "read"]

(* Requests that differ in one thing from a good one. *)
HttpAsks ==
  { Get, [Get EXCEPT !.kid = k3, !.signer = k3], [Get EXCEPT !.signer = k2],
    [Get EXCEPT !.header = "none"], [Get EXCEPT !.form = "other"],
    [Get EXCEPT !.claims.tenants = {""}], [Get EXCEPT !.claims.tenants = {"a", "b"}],
    [Get EXCEPT !.claims.tenants = {"A"}, !.org = "A"],
    [Get EXCEPT !.claims.tenants = {"x"}], [Get EXCEPT !.org = "x"], [Get EXCEPT !.org = "b"],
    [Get EXCEPT !.claims.iat = 3], [Get EXCEPT !.claims.aud = None],
    [Get EXCEPT !.verb = "delete"] }
Others == { Get, [Get EXCEPT !.kid = k2, !.signer = k2] }

(* Without tokens. *)
GuestAsks == { Get, [Get EXCEPT !.org = "b"], [Get EXCEPT !.verb = "delete"] }
GrpcAsks == { [Get EXCEPT !.via = "unary", !.verb = "invoke"], [Get EXCEPT !.via = "stream", !.verb = "invoke"] }

(* Keys that rotate; tokens of all kinds; policies that are reloaded. *)
All ==
  { [authn |-> "keycloak", tenancy |-> "default", authz |-> "allowAll",
     asks |-> r1 :> Others @@ r2 :> Others, rotating |-> {k1, k2}, until |-> 4],
    [authn |-> "keycloak", tenancy |-> "default", authz |-> "allowAll",
     asks |-> r1 :> HttpAsks @@ r2 :> {Get}, rotating |-> {}, until |-> 4],
    [authn |-> "guest", tenancy |-> "guest", authz |-> "opa",
     asks |-> r1 :> GuestAsks @@ r2 :> GrpcAsks, rotating |-> {}, until |-> 0],
    [authn |-> "guest", tenancy |-> "unset", authz |-> "allowAll",
     asks |-> r1 :> GuestAsks @@ r2 :> GrpcAsks, rotating |-> {}, until |-> 0] }

(* Two versions of each of two files; the first file's second version does not *)
(* compile with the second file's first.                                      *)
Versions ==
  <<1, 1>> :> {"read"} @@ <<1, 2>> :> {"read", "delete"} @@
  <<2, 1>> :> {"read", "invoke"} @@ <<2, 2>> :> {"delete", "invoke"}
Uncompiled == {<<2, 1>>}

=============================================================================
