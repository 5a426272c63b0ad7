---------------------------- MODULE Authenticator ----------------------------
(***************************************************************************)
(* From the Authorization header of a request to a principal or an error   *)
(* (internal/auth): bearerToken, Authenticate and the readers of claims.   *)
(*                                                                         *)
(* A header is the sequence of its words.  A token is what the verifier    *)
(* makes of it: a record with its audiences, its subject and its claims.   *)
(* A claim is a JSON value: a text, a list, an object, or something else;  *)
(* lists nested deeper than two are left out.  A text that is empty counts *)
(* as no text with every caller.                                           *)
(***************************************************************************)
EXTENDS ServiceConfig, Positions

CONSTANTS NoToken

NoText == ""

\* bearerToken: two words, the first in any case, the second not blank.
BearerToken(header) ==
    IF Len(header) = 2 /\ header[1] \in {"Bearer", "bearer"} /\ header[2] # Blank
    THEN header[2] ELSE NoToken

-----------------------------------------------------------------------------
(* Readers of claims.                                                      *)

Scalar(value) == IF value.is = "text" THEN value.text ELSE NoText

\* A claim by its name; one that is missing reads as one of no use.
Claim(claims, name) == IF name \in DOMAIN claims THEN claims[name] ELSE [is |-> "other"]

\* The first text that Read finds in a list.
FirstText(items, Read(_)) ==
    LET found == SelectSeq(items, LAMBDA item : Read(item) # NoText)
    IN  IF found = << >> THEN NoText ELSE Read(Head(found))

\* stringClaim on an element of a list, and on a claim.
Element(value) == IF value.is = "list" THEN FirstText(value.items, Scalar) ELSE Scalar(value)
StringClaim(value) ==
    IF value.is = "list" THEN FirstText(value.items, Element) ELSE Scalar(value)

HasField(value, key) == value.is = "object" /\ key \in DOMAIN value.fields

\* Mutant of ToStringSlice: a role that is not in a list is overlooked.
ListedOnly(value) ==
    IF value.is # "list" THEN << >>
    ELSE LET texts == [i \in DOMAIN value.items |-> Element(value.items[i])]
         IN  Pick(texts, {i \in DOMAIN texts : texts[i] # NoText})
\* toStringSlice: each element's text, or the text of a claim that is no list.
ToStringSlice(value) ==
    LET texts == IF value.is = "list"
                 THEN [i \in DOMAIN value.items |-> Element(value.items[i])]
                 ELSE <<StringClaim(value)>>
    IN  Pick(texts, {i \in DOMAIN texts : texts[i] # NoText})

\* The roles of a section: realm_access, or one of resource_access.
SectionRoles(value) ==
    IF HasField(value, "roles") THEN ToStringSlice(value.fields["roles"]) ELSE << >>

\* dedupe keeps the first of equal values, and none that is empty.
Dedupe(values) ==
    Pick(values, {i \in DOMAIN values :
                     values[i] # NoText /\ \A k \in 1 .. i - 1 : values[k] # values[i]})

\* extractRoles, when the iteration over the map resource_access takes its
\* sections in the given order.
ExtractRoles(claims, order) ==
    LET sections == [i \in DOMAIN order |->
                        SectionRoles(Claim(claims, "resource_access").fields[order[i]])]
    IN  Dedupe(SectionRoles(Claim(claims, "realm_access")) \o FlattenSeq(sections))

\* The orders an iteration may take.
Orders(claims) ==
    LET access == Claim(claims, "resource_access")
    IN  IF access.is = "object" THEN SetToSeqs(DOMAIN access.fields) ELSE {<< >>}

-----------------------------------------------------------------------------
\* audAllowed, or no audience configured.
AudienceAllowed(config, token) ==
    config.audiences = {} \/ token.audience \cap config.audiences # {}

\* extractTenantClaim; NoText is its error.
TenantClaim(config, token) == StringClaim(Claim(token.claims, config.tenantClaim))

\* The status Middleware answers when Authenticate fails on a token whose
\* verification succeeds; 0 when it does not fail.
Refusal(config, token) ==
    IF AudienceAllowed(config, token) /\ TenantClaim(config, token) # NoText
    THEN 0 ELSE 403

\* The principal Authenticate makes of a token it accepts.  Email and scopes
\* are left out.
PrincipalOf(config, token, order) ==
    LET name == StringClaim(Claim(token.claims, "preferred_username"))
    IN  [tenant   |-> TenantClaim(config, token),
         username |-> IF name = NoText THEN token.subject ELSE name,
         roles    |-> ExtractRoles(token.claims, order)]
=============================================================================
