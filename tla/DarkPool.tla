------------------------------ MODULE DarkPool ------------------------------
(***************************************************************************)
(* The multi-party gate of the dark pool (src/darkpool.rs) with its price  *)
(* oracle (src/price_freshness.rs). Agents quote on a market and commit to *)
(* what they reasoned over; anyone presents signed prices, of which the    *)
(* oracle keeps the last one per market, whatever its date; the gate       *)
(* judges the parties one after the other. It runs in seconds, and every   *)
(* step may fall between any two others.                                   *)
(***************************************************************************)
EXTENDS Commitment, Oracle, SequencesExt

CONSTANTS
    Parties,       \* the negotiating agents, named by their roles
    Markets,
    Attestations,  \* price attestations that may be presented
    NoKey,         \* an unsigned attestation; as ExpectedPubkey: accept any
    ExpectedPubkey,
    Offers,        \* the ways in which an agent may make up its quote
    MaxPriceAge, MaxWindow, \* DarkPoolThresholds, in seconds
    MaxNow,        \* bound: the last second
    NoPrice, NoQuote, NoOutcome

\* A signature is the message it was made over. Prices are left out: neither
\* the oracle nor the gate looks at them.
PriceAttestation ==
    [market_id : Markets, price_as_of_secs : Nat, public_key : Nat \cup {NoKey},
     signed : [market_id : Markets, price_as_of_secs : Nat]]

\* What an agent commits to, what it discloses, who attests its enclave, and
\* by how many seconds its enclave clock and the date of its quote are ahead.
Offer == [root : Nat, disclosed : Nat, vendor : STRING, drift : Nat, ahead : Nat]

ASSUME DarkPoolAssumption ==
    /\ IsFiniteSet(Parties)
    /\ Attestations \subseteq PriceAttestation
    /\ NoKey \notin Nat /\ ExpectedPubkey \in Nat \cup {NoKey}
    /\ Offers \subseteq Offer
    /\ MaxPriceAge \in Nat /\ MaxWindow \in Nat /\ MaxNow \in Nat
    /\ DrandGenesis <= BaseGenesis
    /\ NoPrice \notin PriceAttestation

VARIABLES
    now,       \* the clock of the venue, in seconds since BaseGenesis
    by_market, \* PriceFreshnessOracle.by_market
    quotes,    \* the PartyContext each agent brought
    outcome    \* the answer of the gate, in the state right after its call

vars == <<now, by_market, quotes, outcome>>

-----------------------------------------------------------------------------
(* The price oracle *)

SigningMessage(a) ==
    [market_id |-> a.market_id, price_as_of_secs |-> a.price_as_of_secs]

\* Wrong form: does not look at the pinned operator.
PriceAcceptedAnyKey(a) == a.public_key # NoKey /\ a.signed = SigningMessage(a)

PriceAccepted(a) ==
    /\ a.public_key # NoKey /\ a.signed = SigningMessage(a)
    /\ ExpectedPubkey # NoKey => a.public_key = ExpectedPubkey

\* Wrong form: the age is kept in place of the date.
PresentPriceAge(a) ==
    /\ PriceAccepted(a)
    /\ by_market' = [by_market EXCEPT ![a.market_id] =
                       [a EXCEPT !.price_as_of_secs = SaturatingSub(now, @)]]
    /\ outcome' = NoOutcome
    /\ UNCHANGED <<now, quotes>>

\* present_price, the call that succeeds; one that fails changes nothing. A
\* later call wins, even with an older price. The oracle has no clock here, so
\* that a price dated ahead is taken like any other.
PresentPrice(a) ==
    /\ PriceAccepted(a)
    /\ by_market' = [by_market EXCEPT ![a.market_id] = a]
    /\ outcome' = NoOutcome
    /\ UNCHANGED <<now, quotes>>

\* Wrong form: the difference is not a saturating one.
PriceAgeSecsWrapping(market) ==
    IF by_market[market] = NoPrice THEN Unavailable
    ELSE (now + U64Max + 1 - by_market[market].price_as_of_secs) % (U64Max + 1)

\* A price dated ahead is of age 0 until the clock has caught up with it.
PriceAgeSecs(market) ==
    IF by_market[market] = NoPrice THEN Unavailable
    ELSE SaturatingSub(now, by_market[market].price_as_of_secs)

-----------------------------------------------------------------------------
(* The gate *)

\* An agent brings its quote, committed now. Neither the quote nor the
\* commitment names the price it was made from.
Quote(p, market, offer) ==
    /\ quotes[p] = NoQuote
    /\ quotes' = [quotes EXCEPT ![p] =
          [commitment |-> Committed(offer.root,
                              ReadClocks(0, BaseGenesis + now, offer.drift),
                              1, offer.vendor),
           root |-> offer.disclosed, market_id |-> market,
           quote_created_at_secs |-> now + offer.ahead]]
    /\ outcome' = NoOutcome
    /\ UNCHANGED <<now, by_market>>

\* Environment: a commitment loses its root on the way to the venue, and its
\* signature no longer fits.
Garble(p) ==
    /\ quotes[p] # NoQuote
    /\ SignatureHolds(quotes[p].commitment)
    /\ quotes' = [quotes EXCEPT ![p].commitment.context_root = @ + 1]
    /\ outcome' = NoOutcome
    /\ UNCHANGED <<now, by_market>>

\* The integrity error of a party's artifacts, or "none".
IntegrityError(q) ==
    CASE ~SignatureHolds(q.commitment)             -> "InvalidSignature"
      [] SignatureHolds(q.commitment) /\ ~Verifies(q.commitment)
                                                   -> "InvalidAttestation"
      [] Verifies(q.commitment) /\ q.root # q.commitment.context_root
                                                   -> "RootMismatch"
      [] OTHER                                     -> "none"

Axes == {"Computational", "Input", "Settlement"}

\* The axes on which a party is stale, in the order they are listed here.
PartyViolations(q) ==
    {axis \in Axes :
       \/ axis = "Computational" /\ ~TeeDrandConsistent(q.commitment.anchor)
       \/ axis = "Input" /\ Stale(PriceAgeSecs(q.market_id), MaxPriceAge)
       \/ axis = "Settlement" /\ (\/ now < q.quote_created_at_secs
                                  \/ now - q.quote_created_at_secs > MaxWindow)}

\* The places of the list with broken artifacts, and with stale parties.
Broken(ps) == {i \in DOMAIN ps : IntegrityError(quotes[ps[i]]) # "none"}
Failing(ps) == {i \in DOMAIN ps : PartyViolations(quotes[ps[i]]) # {}}

\* The verdict of each failing party, by its place in the list.
Verdicts(ps) == [i \in Failing(ps) |-> PartyViolations(quotes[ps[i]])]

Aborted(p) == [kind |-> IntegrityError(quotes[p]), role |-> {p}, failing |-> <<>>]

\* Wrong form: a stale party ends the loop before the artifacts of the
\* parties behind it are looked at.
VerifyPartyContextsEarly(ps) ==
    LET ends == Broken(ps) \cup Failing(ps)
    IN  IF ends = {} THEN [kind |-> "Clear", role |-> {}, failing |-> <<>>]
        ELSE LET first == CHOOSE i \in ends : \A j \in ends : i <= j
             IN  IF first \in Broken(ps) THEN Aborted(ps[first])
                 ELSE [kind |-> "Rejected", role |-> {},
                       failing |-> [i \in {first} |-> Verdicts(ps)[i]]]

\* verify_party_contexts over the list ps: the first broken artifact aborts
\* and names its party, whatever was found stale before it. A list of no
\* parties clears.
VerifyPartyContexts(ps) ==
    IF Broken(ps) # {}
    THEN Aborted(ps[CHOOSE i \in Broken(ps) : \A j \in Broken(ps) : i <= j])
    ELSE [kind |-> IF Failing(ps) = {} THEN "Clear" ELSE "Rejected",
          role |-> {}, failing |-> Verdicts(ps)]

\* The venue settles a negotiation of the listed parties.
AcceptAndSettle(ps) ==
    /\ \A i \in DOMAIN ps : quotes[ps[i]] # NoQuote
    /\ outcome' = [verdict |-> VerifyPartyContexts(ps), parties |-> ps]
    /\ UNCHANGED <<now, by_market, quotes>>

\* The orders in which the parties of a negotiation may be listed.
Negotiations == UNION {SetToSeqs(S) : S \in SUBSET Parties}

Tick == /\ now < MaxNow
        /\ now' = now + 1
        /\ outcome' = NoOutcome
        /\ UNCHANGED <<by_market, quotes>>

Init == /\ now = 0
        /\ by_market = [m \in Markets |-> NoPrice]
        /\ quotes = [p \in Parties |-> NoQuote]
        /\ outcome = NoOutcome

Next ==
    \/ Tick
    \/ \E a \in Attestations : PresentPrice(a)
    \/ \E p \in Parties, market \in Markets, offer \in Offers :
          Quote(p, market, offer)
    \/ \E p \in Parties : Garble(p)
    \/ \E ps \in Negotiations : AcceptAndSettle(ps)

Spec == Init /\ [][Next]_vars
-----------------------------------------------------------------------------
Verdict(ps) == [kind : {"Clear", "Rejected", "InvalidSignature",
                        "InvalidAttestation", "RootMismatch"},
                role : SUBSET ToSet(ps),
                failing : UNION {[I -> SUBSET Axes] : I \in SUBSET DOMAIN ps}]

DarkPoolTypeOK ==
    /\ now \in Nat
    /\ by_market \in [Markets -> Attestations \cup {NoPrice}]
    /\ \A p \in Parties : quotes[p] # NoQuote =>
         /\ quotes[p].commitment.anchor \in TripleAnchor
         /\ quotes[p].market_id \in Markets
         /\ quotes[p].quote_created_at_secs \in Nat
    /\ outcome # NoOutcome => outcome.verdict \in Verdict(outcome.parties)

\* Nobody pays for another: a negotiation clears exactly when each party alone
\* would, in whatever order the parties are listed; who is named in an abort
\* would abort alone, for the same reason; and a rejection lists exactly the
\* parties that would be rejected alone, each with the axes it would be
\* rejected for alone (verify_party_contexts).
NobodyIsBlamedForAnother ==
    \A ps \in Negotiations :
        (\A i \in DOMAIN ps : quotes[ps[i]] # NoQuote) =>
            LET verdict  == VerifyPartyContexts(ps)
                Alone(p) == VerifyPartyContexts(<<p>>)
            IN  /\ verdict.kind = "Clear" <=>
                      \A i \in DOMAIN ps : Alone(ps[i]).kind = "Clear"
                /\ \A p \in verdict.role : Alone(p).kind = verdict.kind
                /\ verdict.kind = "Rejected" => \A i \in DOMAIN ps :
                      IF i \in DOMAIN verdict.failing
                      THEN /\ Alone(ps[i]).kind = "Rejected"
                           /\ verdict.failing[i] = Alone(ps[i]).failing[1]
                      ELSE Alone(ps[i]).kind = "Clear"

\* A trade clears only on what was signed: each party disclosed the root it
\* signed, under clocks that agree and a quote dated within the window; and the
\* pinned operator signed a price for that very market which is dated no
\* further back than the limit, whatever other prices were presented, for this
\* market or another, in whatever order (verify_party_contexts, present_price,
\* price_age_secs).
TradeIsBacked ==
    outcome # NoOutcome /\ outcome.verdict.kind = "Clear" =>
        \A p \in ToSet(outcome.parties) :
            LET f     == quotes[p].commitment
                dated == quotes[p].quote_created_at_secs
            IN  /\ f.signed = SigningDigest(quotes[p].root, f.anchor, f.output_hash)
                /\ TeeDrandConsistent(f.anchor)
                /\ now \in dated .. dated + MaxWindow
                /\ \E a \in Attestations :
                      /\ a.public_key # NoKey
                      /\ ExpectedPubkey \in {NoKey, a.public_key}
                      /\ a.signed.market_id = quotes[p].market_id
                      /\ now <= a.signed.price_as_of_secs + MaxPriceAge

\* Waiting never helps: with the same quotes, none dated ahead, and no new
\* price, a negotiation that does not clear now does not clear later.
TimeNeverClears ==
    [][\A ps \in Negotiations :
         (/\ by_market' = by_market /\ quotes' = quotes
          /\ \A i \in DOMAIN ps : /\ quotes[ps[i]] # NoQuote
                                  /\ quotes[ps[i]].quote_created_at_secs <= now
          /\ VerifyPartyContexts(ps).kind # "Clear")
         => VerifyPartyContexts(ps)'.kind # "Clear"]_vars
=============================================================================
