------------------------------- MODULE SeedDb -------------------------------
(***************************************************************************)
(* cmd/seed-db: what it writes while the server serves, as far as the      *)
(* catalogue and the API key go (its coupon rows are Checkout's).  Every   *)
(* upsert commits by itself; a run that failed, was interrupted or died    *)
(* after any of them is started again.                                     *)
(***************************************************************************)
EXTENDS Naturals, Sequences

CONSTANTS
    Catalog,    \* the products file, a sequence of [id, price]
    SeedKeys,   \* the keys the runs are given
    MaxSeeds    \* bound: runs of the tool

ASSUME CatalogAssumption == Catalog \in Seq([id : Seq(STRING), price : Nat])

VARIABLES
    db,      \* the rows of Catalog that are stored, and the active API keys
    seed,    \* a run: the number of the upsert it is at, and its key
    seeds    \* runs so far

seedVars == <<db, seed, seeds>>

NotSeeding == [at |-> 0, key |-> "none"]

SeedInit ==
    /\ db = [products |-> {}, keys |-> {}]
    /\ seed = NotSeeding
    /\ seeds = 0

seedProducts == [row \in DOMAIN Catalog |-> <<"product", row>>]
seedCoupons  == <<<<"coupons">>>>   \* its upserts change nothing here
seedAPIKey   == <<<<"key">>>>

\* Mutant: the key is written before the catalogue.
upsertsKeyFirst == seedAPIKey \o seedProducts \o seedCoupons

\* The upserts of run, in its order.
upserts == seedProducts \o seedCoupons \o seedAPIKey

\* The key has the one row "default", whose hash a later run replaces.
Stored(upsert, key) ==
    CASE upsert[1] = "product" -> [db EXCEPT !.products = @ \cup {upsert[2]}]
      [] upsert[1] = "key"     -> [db EXCEPT !.keys = {key}]
      [] OTHER                 -> db

\* main, up to the migrations and the file, which change nothing here.
StartSeed ==
    /\ seed = NotSeeding
    /\ seeds < MaxSeeds
    /\ seeds' = seeds + 1
    /\ \E key \in SeedKeys : seed' = [at |-> 1, key |-> key]
    /\ UNCHANGED db

Upsert ==
    /\ seed # NotSeeding
    /\ db' = Stored(upserts[seed.at], seed.key)
    /\ seed' = IF seed.at = Len(upserts) THEN NotSeeding ELSE [seed EXCEPT !.at = @ + 1]
    /\ UNCHANGED seeds

\* An error, SIGINT, or the death of the tool: the upsert in hand may have been
\* executed.
SeedFails ==
    /\ seed # NotSeeding
    /\ db' \in {db, Stored(upserts[seed.at], seed.key)}
    /\ seed' = NotSeeding
    /\ UNCHANGED seeds

Seed == StartSeed \/ Upsert \/ SeedFails
=============================================================================
