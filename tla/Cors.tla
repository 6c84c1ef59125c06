-------------------------------- MODULE Cors --------------------------------
(***************************************************************************)
(* pkg/httpmiddleware/cors.go: what the middleware says of a request's     *)
(* origin.  "*" is the wildcard.                                           *)
(***************************************************************************)
EXTENDS Naturals, Sequences, SequencesExt

CONSTANT Lower   \* strings.ToLower on the origins

Absent == ""   \* a header that is not there

\* The origins listed before a wildcard: the loop breaks there.
Listed(cfg) ==
    LET stars == {i \in DOMAIN cfg.origins : cfg.origins[i] = "*"}
    IN  SubSeq(cfg.origins, 1, IF stars = {} THEN Len(cfg.origins) ELSE Min(stars) - 1)

Wildcard(cfg) == cfg.origins = <<>> \/ Contains(cfg.origins, "*")

AllowAll(cfg) == Wildcard(cfg) /\ ~cfg.credentials

\* The map from lower case to the spelling of the configuration: the last
\* listed spelling stays.
MatchOrigin(cfg, origin) ==
    LET same == {i \in DOMAIN Listed(cfg) : Lower[Listed(cfg)[i]] = Lower[origin]}
    IN  IF AllowAll(cfg) THEN "*"
        ELSE IF same = {} THEN Absent ELSE Listed(cfg)[Max(same)]

NoHeaders == [acao |-> Absent, cred |-> FALSE, vary |-> FALSE]

\* Mutant: a request without an origin gets no Vary.
WithoutOriginBare(cfg) == NoHeaders

WithoutOrigin(cfg) == [NoHeaders EXCEPT !.vary = ~AllowAll(cfg)]

\* Vary names the origin (and, on a preflight, the two headers it asks with).
WithOrigin(cfg, origin, vary) ==
    LET allowed == MatchOrigin(cfg, origin)
    IN  [acao |-> allowed,
         cred |-> allowed # Absent /\ cfg.credentials,
         vary |-> vary]

CorsHeaders(cfg, origin, preflight) ==
    IF origin = Absent THEN WithoutOrigin(cfg)
    ELSE WithOrigin(cfg, origin, preflight \/ ~AllowAll(cfg))
=============================================================================
