--------------------------- MODULE DarkPoolProofs ---------------------------
(***************************************************************************)
(* The dark pool: its types, what its price oracle answers from, what its  *)
(* gate owes each party of a negotiation, and what a cleared trade rests   *)
(* on; for every set of agents, markets, prices and offers, and for every  *)
(* threshold.                                                              *)
(***************************************************************************)
EXTENDS DarkPool, FiniteSetTheorems, Arithmetic

-----------------------------------------------------------------------------
(* The gate on its own *)

\* The places of a negotiation are the first naturals, and each place holds a
\* party.
LEMMA NegotiationType ==
    ASSUME NEW ps \in Negotiations
    PROVE  /\ DOMAIN ps \in SUBSET Nat
           /\ \A i \in DOMAIN ps : ps[i] \in Parties
<1>1. PICK S \in SUBSET Parties : ps \in SetToSeqs(S)
  BY DEF Negotiations
<1>2. IsFiniteSet(S)
  BY FS_Subset, DarkPoolAssumption
<1>3. Cardinality(S) \in Nat
  BY <1>2, FS_CardinalityType
<1>4. ps \in [1..Cardinality(S) -> S]
  BY <1>1 DEF SetToSeqs
<1> QED BY <1>3, <1>4

\* An integrity check has four outcomes, none of them a verdict on freshness.
LEMMA IntegrityErrors ==
    ASSUME NEW q
    PROVE  IntegrityError(q) \in
             {"none", "InvalidSignature", "InvalidAttestation", "RootMismatch"}
BY DEF IntegrityError

\* An abort names a party whose artifacts are broken.
LEMMA AbortNamesBroken ==
    \A ps \in Negotiations : Broken(ps) # {} =>
        \E i \in Broken(ps) : VerifyPartyContexts(ps) = Aborted(ps[i])
<1> SUFFICES ASSUME NEW ps \in Negotiations, Broken(ps) # {}
             PROVE  \E i \in Broken(ps) : VerifyPartyContexts(ps) = Aborted(ps[i])
  OBVIOUS
<1> DEFINE Least(i) == \A j \in Broken(ps) : i <= j
           first == CHOOSE i \in Broken(ps) : Least(i)
<1>1. Broken(ps) \in SUBSET Nat
  BY NegotiationType DEF Broken
<1>2. \E i \in Broken(ps) : Least(i)
  BY <1>1, LeastElement
<1>3. first \in Broken(ps)
  BY <1>2
<1>4. VerifyPartyContexts(ps) = Aborted(ps[first])
  BY DEF VerifyPartyContexts
<1> HIDE DEF first
<1> QED BY <1>3, <1>4

\* A negotiation clears when no artifact is broken and no party is stale; it
\* is rejected when no artifact is broken and some party is.
LEMMA WhenItClears ==
    \A ps \in Negotiations :
        /\ VerifyPartyContexts(ps).kind = "Clear" <=>
              Broken(ps) = {} /\ Failing(ps) = {}
        /\ VerifyPartyContexts(ps).kind = "Rejected" <=>
              Broken(ps) = {} /\ Failing(ps) # {}
<1> SUFFICES ASSUME NEW ps \in Negotiations
             PROVE  /\ VerifyPartyContexts(ps).kind = "Clear" <=>
                          Broken(ps) = {} /\ Failing(ps) = {}
                    /\ VerifyPartyContexts(ps).kind = "Rejected" <=>
                          Broken(ps) = {} /\ Failing(ps) # {}
  OBVIOUS
<1>1. CASE Broken(ps) # {}
  <2>1. PICK i \in Broken(ps) :
           VerifyPartyContexts(ps).kind = IntegrityError(quotes[ps[i]])
    BY <1>1, AbortNamesBroken DEF Aborted
  <2>2. VerifyPartyContexts(ps).kind \notin {"Clear", "Rejected"}
    BY <2>1, IntegrityErrors
  <2> QED BY <1>1, <2>2
<1>2. CASE Broken(ps) = {}
  BY <1>2 DEF VerifyPartyContexts
<1> QED BY <1>1, <1>2

\* A party that negotiates with nobody.
LEMMA AloneIsNegotiation ==
    ASSUME NEW p \in Parties
    PROVE  <<p>> \in Negotiations
<1>1. Cardinality({p}) = 1
  BY FS_Singleton
<1>2. <<p>> \in [1..1 -> {p}]
  OBVIOUS
<1>3. <<p>> \in SetToSeqs({p})
  BY <1>1, <1>2 DEF SetToSeqs
<1> QED BY <1>3 DEF Negotiations

\* What the gate says of a party that negotiates with nobody.
LEMMA AloneVerdict ==
    ASSUME NEW p \in Parties
    PROVE  /\ VerifyPartyContexts(<<p>>).kind =
                IF IntegrityError(quotes[p]) # "none" THEN IntegrityError(quotes[p])
                ELSE IF PartyViolations(quotes[p]) = {} THEN "Clear" ELSE "Rejected"
           /\ VerifyPartyContexts(<<p>>).kind = "Rejected" =>
                VerifyPartyContexts(<<p>>).failing[1] = PartyViolations(quotes[p])
<1> DEFINE ps == <<p>>
<1>1. DOMAIN ps = {1} /\ ps[1] = p
  OBVIOUS
<1>2. ps \in Negotiations
  BY AloneIsNegotiation
<1> HIDE DEF ps
<1>3. Broken(ps) = IF IntegrityError(quotes[p]) # "none" THEN {1} ELSE {}
  BY <1>1 DEF Broken
<1>4. Failing(ps) = IF PartyViolations(quotes[p]) = {} THEN {} ELSE {1}
  BY <1>1 DEF Failing
<1>5. CASE IntegrityError(quotes[p]) # "none"
  <2>1. PICK i \in Broken(ps) : VerifyPartyContexts(ps) = Aborted(ps[i])
    BY <1>2, <1>3, <1>5, AbortNamesBroken
  <2>2. VerifyPartyContexts(ps).kind = IntegrityError(quotes[p])
    BY <1>1, <1>3, <1>5, <2>1 DEF Aborted
  <2> QED BY <1>5, <2>2, IntegrityErrors DEF ps
<1>6. CASE IntegrityError(quotes[p]) = "none"
  <2>1. VerifyPartyContexts(ps).kind =
          IF PartyViolations(quotes[p]) = {} THEN "Clear" ELSE "Rejected"
    BY <1>2, <1>3, <1>4, <1>6, WhenItClears
  <2>2. VerifyPartyContexts(ps).failing = Verdicts(ps)
    BY <1>3, <1>6 DEF VerifyPartyContexts
  <2>3. ASSUME PartyViolations(quotes[p]) # {}
        PROVE  Verdicts(ps)[1] = PartyViolations(quotes[p])
    BY <1>1, <1>4, <2>3 DEF Verdicts
  <2> QED BY <1>6, <2>1, <2>2, <2>3 DEF ps
<1> QED BY <1>5, <1>6

\* In any state whatever, the gate treats each party on its own merits.
LEMMA JudgedOnOwnMerits == NobodyIsBlamedForAnother
<1> SUFFICES ASSUME NEW ps \in Negotiations
             PROVE  LET verdict  == VerifyPartyContexts(ps)
                        Alone(p) == VerifyPartyContexts(<<p>>)
                    IN  /\ verdict.kind = "Clear" <=>
                              \A i \in DOMAIN ps : Alone(ps[i]).kind = "Clear"
                        /\ \A p \in verdict.role : Alone(p).kind = verdict.kind
                        /\ verdict.kind = "Rejected" => \A i \in DOMAIN ps :
                              IF i \in DOMAIN verdict.failing
                              THEN /\ Alone(ps[i]).kind = "Rejected"
                                   /\ verdict.failing[i] = Alone(ps[i]).failing[1]
                              ELSE Alone(ps[i]).kind = "Clear"
  BY DEF NobodyIsBlamedForAnother
<1> DEFINE verdict == VerifyPartyContexts(ps)
           Alone(p) == VerifyPartyContexts(<<p>>)
           Error(p) == IntegrityError(quotes[p])
           Stained(p) == PartyViolations(quotes[p])
<1>1. \A i \in DOMAIN ps : ps[i] \in Parties
  BY NegotiationType
<1>2. \A p \in Parties :
         /\ Alone(p).kind = IF Error(p) # "none" THEN Error(p)
                            ELSE IF Stained(p) = {} THEN "Clear" ELSE "Rejected"
         /\ Alone(p).kind = "Rejected" => Alone(p).failing[1] = Stained(p)
  BY AloneVerdict
<1>3. \A p \in Parties :
         Error(p) \in {"none", "InvalidSignature", "InvalidAttestation",
                       "RootMismatch"}
  BY IntegrityErrors
<1>4. verdict.kind = "Clear" <=> Broken(ps) = {} /\ Failing(ps) = {}
  BY WhenItClears
<1>5. Broken(ps) = {i \in DOMAIN ps : Error(ps[i]) # "none"}
  BY DEF Broken
<1>6. Failing(ps) = {i \in DOMAIN ps : Stained(ps[i]) # {}}
  BY DEF Failing
<1>7. CASE Broken(ps) # {}
  <2>1. PICK i \in Broken(ps) : verdict = Aborted(ps[i])
    BY <1>7, AbortNamesBroken
  <2>2. verdict.kind = Error(ps[i]) /\ verdict.role = {ps[i]}
    BY <2>1 DEF Aborted
  <2>3. Error(ps[i]) # "none" /\ ps[i] \in Parties /\ i \in DOMAIN ps
    BY <1>1, <1>5
  <2>4. /\ Alone(ps[i]).kind = verdict.kind
        /\ verdict.kind \notin {"Clear", "Rejected"}
    BY <1>2, <1>3, <2>2, <2>3
  <2> HIDE DEF verdict, Alone
  <2> QED BY <2>2, <2>3, <2>4 DEF verdict, Alone
<1>8. CASE Broken(ps) = {}
  <2>1. verdict.role = {} /\ verdict.failing = Verdicts(ps)
    BY <1>8 DEF VerifyPartyContexts
  <2>2. /\ DOMAIN Verdicts(ps) = Failing(ps)
        /\ \A i \in Failing(ps) : Verdicts(ps)[i] = Stained(ps[i])
    BY DEF Verdicts
  <2>3. \A i \in DOMAIN ps : Error(ps[i]) = "none"
    BY <1>5, <1>8
  <2>4. \A i \in DOMAIN ps :
           /\ Alone(ps[i]).kind = IF Stained(ps[i]) = {} THEN "Clear" ELSE "Rejected"
           /\ Alone(ps[i]).kind = "Rejected" =>
                 Alone(ps[i]).failing[1] = Stained(ps[i])
    BY <1>1, <1>2, <2>3
  <2> HIDE DEF verdict, Alone, Stained, Error
  <2>5. verdict.kind = "Clear" <=> \A i \in DOMAIN ps : Alone(ps[i]).kind = "Clear"
    BY <1>4, <1>6, <1>8, <2>4
  <2>6. ASSUME NEW i \in DOMAIN ps
        PROVE  IF i \in DOMAIN verdict.failing
               THEN /\ Alone(ps[i]).kind = "Rejected"
                    /\ verdict.failing[i] = Alone(ps[i]).failing[1]
               ELSE Alone(ps[i]).kind = "Clear"
    BY <1>6, <2>1, <2>2, <2>4
  <2> QED BY <2>1, <2>5, <2>6 DEF verdict, Alone
<1> QED BY <1>7, <1>8

\* Nobody pays for another, whoever negotiates with whom and in whatever order
\* the parties are listed (verify_party_contexts).
THEOREM NobodyPaysForAnother == Spec => []NobodyIsBlamedForAnother
BY JudgedOnOwnMerits, PTL

-----------------------------------------------------------------------------
(* The states of the venue *)

\* What an agent brought: its clocks can be read.
QuoteOK(q) ==
    /\ q = [commitment |-> q.commitment, root |-> q.root,
            market_id |-> q.market_id,
            quote_created_at_secs |-> q.quote_created_at_secs]
    /\ q.commitment = [context_root |-> q.commitment.context_root,
                       anchor |-> q.commitment.anchor,
                       output_hash |-> q.commitment.output_hash,
                       vendor |-> q.commitment.vendor,
                       signed |-> q.commitment.signed]
    /\ q.commitment.anchor \in TripleAnchor
    /\ q.market_id \in Markets
    /\ q.quote_created_at_secs \in Nat

\* The oracle answers from prices it accepted, each under its own market.
PricesAreSigned ==
    \A m \in Markets : by_market[m] # NoPrice =>
        /\ by_market[m].market_id = m
        /\ PriceAccepted(by_market[m])

\* An answer of the gate is the one it would give again: nothing has moved.
OutcomeOK ==
    outcome # NoOutcome =>
        /\ outcome.parties \in Negotiations
        /\ \A i \in DOMAIN outcome.parties : quotes[outcome.parties[i]] # NoQuote
        /\ outcome.verdict = VerifyPartyContexts(outcome.parties)

DarkPoolInv ==
    /\ now \in Nat
    /\ by_market \in [Markets -> Attestations \cup {NoPrice}]
    /\ quotes = [p \in Parties |-> quotes[p]]
    /\ \A p \in Parties : quotes[p] # NoQuote => QuoteOK(quotes[p])
    /\ OutcomeOK
    /\ PricesAreSigned

\* At first there is neither a price, nor a quote, nor an answer.
LEMMA DarkPoolInvInit == Init => DarkPoolInv
BY DEF Init, DarkPoolInv, OutcomeOK, PricesAreSigned

\* The clocks of an agent can be read at every second.
LEMMA AgentAnchorType ==
    ASSUME now \in Nat, NEW drift \in Nat
    PROVE  ReadClocks(0, BaseGenesis + now, drift) \in TripleAnchor
<1> DEFINE s == BaseGenesis + now
<1>1. s \in Nat /\ s - DrandGenesis \in Nat
  BY AnchorAssumption, DarkPoolAssumption
<1> HIDE DEF s
<1>2. (s + drift) * NanosPerSec \in Nat
  BY <1>1, AnchorAssumption
<1>3. (s - DrandGenesis) \div DrandPeriod \in Nat
  BY <1>1, AnchorAssumption, FloorOfQuotient
<1>4. ReadClocks(0, s, drift) \in TripleAnchor
  BY <1>2, <1>3 DEF ReadClocks, TripleAnchor
<1> QED BY <1>4 DEF s

\* Every step keeps the venue in order: a price is kept under its own market,
\* and whatever moves takes the last answer away.
LEMMA DarkPoolInvStep == DarkPoolInv /\ [Next]_vars => DarkPoolInv'
<1> SUFFICES ASSUME DarkPoolInv, [Next]_vars
             PROVE  DarkPoolInv'
  OBVIOUS
<1> USE DEF DarkPoolInv
<1>1. CASE Tick
  <2>1. now' = now + 1 /\ UNCHANGED <<by_market, quotes>> /\ outcome' = NoOutcome
    BY <1>1 DEF Tick
  <2> QED BY <2>1 DEF QuoteOK, OutcomeOK, PricesAreSigned, PriceAccepted
<1>2. ASSUME NEW a \in Attestations, PresentPrice(a)
      PROVE  DarkPoolInv'
  <2>1. /\ UNCHANGED <<now, quotes>> /\ outcome' = NoOutcome
        /\ by_market' = [by_market EXCEPT ![a.market_id] = a]
        /\ PriceAccepted(a)
    BY <1>2 DEF PresentPrice
  <2>2. a.market_id \in Markets /\ a \in PriceAttestation
    BY DarkPoolAssumption DEF PriceAttestation
  <2>3. \A m \in Markets : by_market'[m] = IF m = a.market_id THEN a ELSE by_market[m]
    BY <2>1, <2>2
  <2>4. PricesAreSigned'
    BY <2>1, <2>2, <2>3 DEF PricesAreSigned, SigningMessage, PriceAccepted
  <2>5. \A p \in Parties : quotes[p] # NoQuote => QuoteOK(quotes[p])'
    BY <2>1 DEF QuoteOK
  <2> QED BY <2>1, <2>4, <2>5 DEF OutcomeOK
<1>3. ASSUME NEW p \in Parties, NEW market \in Markets, NEW offer \in Offers,
             Quote(p, market, offer)
      PROVE  DarkPoolInv'
  <2> DEFINE anchor == ReadClocks(0, BaseGenesis + now, offer.drift)
             signed == Committed(offer.root, anchor, 1, offer.vendor)
             q == [commitment |-> signed, root |-> offer.disclosed,
                   market_id |-> market,
                   quote_created_at_secs |-> now + offer.ahead]
  <2>1. /\ UNCHANGED <<now, by_market>> /\ outcome' = NoOutcome
        /\ quotes' = [quotes EXCEPT ![p] = q]
    BY <1>3 DEF Quote
  <2>2. offer.drift \in Nat /\ offer.ahead \in Nat
    BY DarkPoolAssumption DEF Offer
  <2>3. anchor \in TripleAnchor
    BY <2>2, AgentAnchorType
  <2>4. QuoteOK(q)
    <3> HIDE DEF anchor
    <3>1. /\ q.commitment = signed /\ q.root = offer.disclosed
          /\ q.market_id = market
          /\ q.quote_created_at_secs = now + offer.ahead
      BY DEF q
    <3>2. signed.anchor = anchor
      BY DEF Committed
    <3>3. signed = [context_root |-> signed.context_root,
                    anchor |-> signed.anchor,
                    output_hash |-> signed.output_hash,
                    vendor |-> signed.vendor,
                    signed |-> signed.signed]
      BY DEF Committed
    <3>4. now + offer.ahead \in Nat
      BY <2>1, <2>2
    <3> HIDE DEF signed
    <3> QED BY <2>3, <3>1, <3>2, <3>3, <3>4 DEF QuoteOK
  <2> HIDE DEF q
  <2>5. \A r \in Parties : quotes'[r] = IF r = p THEN q ELSE quotes[r]
    BY <2>1
  <2>6. \A r \in Parties : quotes'[r] # NoQuote => QuoteOK(quotes'[r])
    BY <2>4, <2>5
  <2>7. quotes' = [r \in Parties |-> quotes'[r]]
    BY <2>1
  <2> QED BY <2>1, <2>6, <2>7 DEF QuoteOK, OutcomeOK, PricesAreSigned, PriceAccepted
<1>4. ASSUME NEW p \in Parties, Garble(p)
      PROVE  DarkPoolInv'
  <2> DEFINE f == [quotes[p].commitment EXCEPT !.context_root = @ + 1]
             q == [quotes[p] EXCEPT !.commitment = f]
  <2>1. /\ UNCHANGED <<now, by_market>> /\ outcome' = NoOutcome
        /\ quotes' = [quotes EXCEPT ![p] = q]
        /\ QuoteOK(quotes[p])
    BY <1>4 DEF Garble
  <2>2. QuoteOK(q)
    BY <2>1 DEF QuoteOK
  <2> HIDE DEF q
  <2>3. \A r \in Parties : quotes'[r] = IF r = p THEN q ELSE quotes[r]
    BY <2>1
  <2>4. \A r \in Parties : quotes'[r] # NoQuote => QuoteOK(quotes'[r])
    BY <2>2, <2>3
  <2>5. quotes' = [r \in Parties |-> quotes'[r]]
    BY <2>1
  <2> QED BY <2>1, <2>4, <2>5 DEF QuoteOK, OutcomeOK, PricesAreSigned, PriceAccepted
<1>5. ASSUME NEW ps \in Negotiations, AcceptAndSettle(ps)
      PROVE  DarkPoolInv'
  <2>1. /\ UNCHANGED <<now, by_market, quotes>>
        /\ \A i \in DOMAIN ps : quotes[ps[i]] # NoQuote
        /\ outcome' = [verdict |-> VerifyPartyContexts(ps), parties |-> ps]
    BY <1>5 DEF AcceptAndSettle
  <2>2. VerifyPartyContexts(ps)' = VerifyPartyContexts(ps)
    BY <2>1 DEF VerifyPartyContexts, Broken, Failing, Verdicts, Aborted,
                PartyViolations, PriceAgeSecs
  <2>3. OutcomeOK'
    <3>1. outcome'.parties = ps /\ outcome'.verdict = VerifyPartyContexts(ps)
      BY <2>1
    <3>2. outcome'.verdict = VerifyPartyContexts(ps)'
      BY <2>2, <3>1
    <3>3. (VerifyPartyContexts(outcome.parties))' = VerifyPartyContexts(ps)'
      <4>1. /\ Broken(outcome.parties)' = Broken(ps)'
            /\ Failing(outcome.parties)' = Failing(ps)'
        BY <3>1 DEF Broken, Failing, PartyViolations, PriceAgeSecs
      <4>2. Verdicts(outcome.parties)' = Verdicts(ps)'
        BY <3>1, <4>1 DEF Verdicts, PartyViolations, PriceAgeSecs
      <4> QED BY <3>1, <4>1, <4>2 DEF VerifyPartyContexts, Aborted
    <3> QED BY <2>1, <3>1, <3>2, <3>3 DEF OutcomeOK
  <2> QED BY <2>1, <2>3 DEF QuoteOK, PricesAreSigned, PriceAccepted
<1>6. CASE UNCHANGED vars
  <2>1. OutcomeOK'
    <3>1. (VerifyPartyContexts(outcome.parties))' =
            VerifyPartyContexts(outcome.parties)
      BY <1>6 DEF vars, VerifyPartyContexts, Broken, Failing, Verdicts, Aborted,
                  PartyViolations, PriceAgeSecs
    <3> QED BY <1>6, <3>1 DEF vars, OutcomeOK
  <2> QED BY <1>6, <2>1 DEF vars, QuoteOK, PricesAreSigned, PriceAccepted
<1> QED BY <1>1, <1>2, <1>3, <1>4, <1>5, <1>6 DEF Next

\* The venue keeps its invariant in every behaviour.
THEOREM DarkPoolInvariant == Spec => []DarkPoolInv
BY DarkPoolInvInit, DarkPoolInvStep, PTL DEF Spec

\* The state of the venue is well typed in every behaviour.
THEOREM DarkPoolTypeCorrect == Spec => []DarkPoolTypeOK
<1>1. DarkPoolInv => DarkPoolTypeOK
  <2> SUFFICES ASSUME DarkPoolInv
               PROVE  DarkPoolTypeOK
    OBVIOUS
  <2>1. outcome # NoOutcome => outcome.verdict \in Verdict(outcome.parties)
    <3> SUFFICES ASSUME NEW ps \in Negotiations
                 PROVE  VerifyPartyContexts(ps) \in Verdict(ps)
      BY DEF DarkPoolInv, OutcomeOK
    <3>1. CASE Broken(ps) # {}
      <4>1. PICK i \in Broken(ps) : VerifyPartyContexts(ps) = Aborted(ps[i])
        BY <3>1, AbortNamesBroken
      <4>2. /\ IntegrityError(quotes[ps[i]]) # "none"
            /\ ps[i] \in ToSet(ps)
        BY DEF Broken, ToSet
      <4>3. << >> \in [{} -> SUBSET Axes]
        OBVIOUS
      <4> QED BY <4>1, <4>2, <4>3, IntegrityErrors DEF Verdict, Aborted
    <3>2. CASE Broken(ps) = {}
      <4>1. Failing(ps) \in SUBSET DOMAIN ps
        BY DEF Failing
      <4>2. Verdicts(ps) \in [Failing(ps) -> SUBSET Axes]
        BY DEF Verdicts, PartyViolations
      <4> QED BY <3>2, <4>1, <4>2 DEF VerifyPartyContexts, Verdict
    <3> QED BY <3>1, <3>2
  <2> QED BY <2>1 DEF DarkPoolInv, DarkPoolTypeOK, QuoteOK
<1> QED BY <1>1, DarkPoolInvariant, PTL

-----------------------------------------------------------------------------
(* What a trade rests on *)

\* A date of a price.
LEMMA PriceDate ==
    ASSUME DarkPoolInv, NEW m \in Markets, by_market[m] # NoPrice
    PROVE  by_market[m].price_as_of_secs \in Nat
BY DarkPoolAssumption DEF DarkPoolInv, PriceAttestation

\* The gate lets a party pass on its inputs only by a price dated no further
\* back than the limit.
LEMMA FreshPrice ==
    ASSUME DarkPoolInv, NEW m \in Markets,
           ~Stale(PriceAgeSecs(m), MaxPriceAge)
    PROVE  /\ by_market[m] # NoPrice
           /\ now <= by_market[m].price_as_of_secs + MaxPriceAge
<1>1. by_market[m] # NoPrice
  BY DEF Stale, PriceAgeSecs
<1>2. /\ now \in Nat /\ MaxPriceAge \in Nat
      /\ by_market[m].price_as_of_secs \in Nat
  BY <1>1, PriceDate, DarkPoolAssumption DEF DarkPoolInv
<1> QED BY <1>1, <1>2, UnavailableAssumption DEF Stale, PriceAgeSecs, SaturatingSub

\* A trade clears only on what was signed, by its parties and by the pinned
\* operator, and on dates within the limits, however commitments are damaged
\* and prices presented in between (verify_party_contexts, present_price,
\* price_age_secs).
THEOREM TradesAreBacked == Spec => []TradeIsBacked
<1>1. DarkPoolInv => TradeIsBacked
  <2> SUFFICES ASSUME DarkPoolInv, outcome # NoOutcome,
                      outcome.verdict.kind = "Clear",
                      NEW p \in ToSet(outcome.parties)
               PROVE  LET f     == quotes[p].commitment
                          dated == quotes[p].quote_created_at_secs
                      IN  /\ f.signed =
                                SigningDigest(quotes[p].root, f.anchor, f.output_hash)
                          /\ TeeDrandConsistent(f.anchor)
                          /\ now \in dated .. dated + MaxWindow
                          /\ \E a \in Attestations :
                                /\ a.public_key # NoKey
                                /\ ExpectedPubkey \in {NoKey, a.public_key}
                                /\ a.signed.market_id = quotes[p].market_id
                                /\ now <= a.signed.price_as_of_secs + MaxPriceAge
    BY DEF TradeIsBacked
  <2> DEFINE ps == outcome.parties
             q == quotes[p]
             dated == q.quote_created_at_secs
             m == q.market_id
             price == by_market[m]
  <2>1. /\ ps \in Negotiations
        /\ VerifyPartyContexts(ps).kind = "Clear"
        /\ \A i \in DOMAIN ps : quotes[ps[i]] # NoQuote
    BY DEF DarkPoolInv, OutcomeOK
  <2>2. PICK i \in DOMAIN ps : ps[i] = p
    BY DEF ToSet
  <2>3. p \in Parties /\ q # NoQuote
    BY <2>1, <2>2, NegotiationType
  <2>4. QuoteOK(q)
    BY <2>3 DEF DarkPoolInv
  <2>5. IntegrityError(q) = "none" /\ PartyViolations(q) = {}
    BY <2>1, <2>2, WhenItClears DEF Broken, Failing
  <2>6. /\ q.commitment.signed = SigningDigest(q.root, q.commitment.anchor,
                                              q.commitment.output_hash)
    BY <2>5 DEF IntegrityError, Verifies, SignatureHolds
  <2>7. /\ TeeDrandConsistent(q.commitment.anchor)
        /\ ~Stale(PriceAgeSecs(m), MaxPriceAge)
        /\ ~(now < dated) /\ ~(now - dated > MaxWindow)
    BY <2>5 DEF PartyViolations, Axes
  <2>8. now \in Nat /\ dated \in Nat /\ MaxWindow \in Nat /\ m \in Markets
    BY <2>4, DarkPoolAssumption DEF QuoteOK, DarkPoolInv
  <2>9. now \in dated .. dated + MaxWindow
    <3> HIDE DEF dated
    <3> QED BY <2>7, <2>8
  <2>10. price # NoPrice /\ now <= price.price_as_of_secs + MaxPriceAge
    BY <2>7, <2>8, FreshPrice
  <2>11. /\ price \in Attestations /\ price.market_id = m
         /\ PriceAccepted(price)
    BY <2>8, <2>10 DEF DarkPoolInv, PricesAreSigned
  <2>12. /\ price.public_key # NoKey
         /\ ExpectedPubkey \in {NoKey, price.public_key}
         /\ price.signed.market_id = m
         /\ price.signed.price_as_of_secs = price.price_as_of_secs
    BY <2>11 DEF PriceAccepted, SigningMessage
  <2> HIDE DEF price
  <2> QED BY <2>6, <2>7, <2>9, <2>10, <2>11, <2>12
<1> QED BY <1>1, DarkPoolInvariant, PTL

-----------------------------------------------------------------------------
(* Waiting *)

\* A party that is stale stays stale while time passes and no price comes in.
LEMMA StainsStay ==
    ASSUME DarkPoolInv, now' \in Nat, now <= now', by_market' = by_market,
           NEW q, q.market_id \in Markets, q.quote_created_at_secs \in Nat,
           q.quote_created_at_secs <= now
    PROVE  PartyViolations(q) \subseteq PartyViolations(q)'
<1> DEFINE m == q.market_id
           dated == q.quote_created_at_secs
<1>1. now \in Nat /\ MaxPriceAge \in Nat /\ MaxWindow \in Nat
  BY DarkPoolAssumption DEF DarkPoolInv
<1>2. Stale(PriceAgeSecs(m), MaxPriceAge) => Stale(PriceAgeSecs(m), MaxPriceAge)'
  <2>1. CASE by_market[m] = NoPrice
    BY <2>1 DEF Stale, PriceAgeSecs
  <2>2. CASE by_market[m] # NoPrice
    <3> DEFINE asOf == by_market[m].price_as_of_secs
    <3>1. asOf \in Nat /\ now \in Nat /\ now' \in Nat /\ now <= now'
      BY <1>1, <2>2, PriceDate
    <3>2. /\ PriceAgeSecs(m) = SaturatingSub(now, asOf)
          /\ PriceAgeSecs(m)' = SaturatingSub(now', asOf)
      BY <1>1, <2>2 DEF PriceAgeSecs, SaturatingSub
    <3>3. /\ SaturatingSub(now, asOf) \in Nat /\ SaturatingSub(now', asOf) \in Nat
          /\ SaturatingSub(now, asOf) <= SaturatingSub(now', asOf)
      <4>1. \A x, y, z \in Nat : y <= z =>
               /\ SaturatingSub(y, x) \in Nat /\ SaturatingSub(z, x) \in Nat
               /\ SaturatingSub(y, x) <= SaturatingSub(z, x)
        BY DEF SaturatingSub
      <4> QED BY <3>1, <4>1
    <3> QED BY <1>1, <3>2, <3>3, UnavailableAssumption DEF Stale
  <2> QED BY <2>1, <2>2
<1>3. now < dated \/ now - dated > MaxWindow =>
         now' < dated \/ now' - dated > MaxWindow
  BY <1>1
<1> QED BY <1>2, <1>3 DEF PartyViolations

\* Waiting never helps: with the same quotes, none dated ahead, and the same
\* prices, a negotiation that does not clear does not clear later
\* (verify_party_contexts reads the clock once for the window and once for the
\* age of a price).
THEOREM WaitingNeverClears == Spec => TimeNeverClears
<1>1. (\A ps \in Negotiations :
         VerifyPartyContexts(ps).kind = "Clear" =>
            Broken(ps) = {} /\ Failing(ps) = {})'
  <2>1. \A ps \in Negotiations :
           VerifyPartyContexts(ps).kind = "Clear" =>
              Broken(ps) = {} /\ Failing(ps) = {}
    BY WhenItClears
  <2> QED BY <2>1, PTL
<1>2. DarkPoolInv /\ DarkPoolInv' /\ [Next]_vars =>
        [\A ps \in Negotiations :
           (/\ by_market' = by_market /\ quotes' = quotes
            /\ \A i \in DOMAIN ps : /\ quotes[ps[i]] # NoQuote
                                    /\ quotes[ps[i]].quote_created_at_secs <= now
            /\ VerifyPartyContexts(ps).kind # "Clear")
           => VerifyPartyContexts(ps)'.kind # "Clear"]_vars
  <2> SUFFICES ASSUME DarkPoolInv, DarkPoolInv', [Next]_vars,
                      NEW ps \in Negotiations,
                      by_market' = by_market, quotes' = quotes,
                      \A i \in DOMAIN ps :
                         /\ quotes[ps[i]] # NoQuote
                         /\ quotes[ps[i]].quote_created_at_secs <= now,
                      VerifyPartyContexts(ps).kind # "Clear"
               PROVE  VerifyPartyContexts(ps)'.kind # "Clear"
    OBVIOUS
  <2>1. now \in Nat /\ now' \in Nat /\ now <= now'
    <3>1. now' = now \/ now' = now + 1
      BY Zenon DEF Next, vars, Tick, PresentPrice, Quote, Garble, AcceptAndSettle
    <3> QED BY <3>1 DEF DarkPoolInv
  <2>2. Broken(ps)' = Broken(ps)
    BY DEF Broken
  <2>3. Failing(ps) \subseteq Failing(ps)'
    <3> SUFFICES ASSUME NEW i \in DOMAIN ps, PartyViolations(quotes[ps[i]]) # {}
                 PROVE  PartyViolations(quotes[ps[i]])' # {}
      BY DEF Failing
    <3> DEFINE p == ps[i]
               q == quotes[p]
    <3>1. p \in Parties /\ q # NoQuote /\ q.quote_created_at_secs <= now
      BY NegotiationType
    <3>2. q.market_id \in Markets /\ q.quote_created_at_secs \in Nat
      BY <3>1 DEF DarkPoolInv, QuoteOK
    <3>3. \A r : /\ r.market_id \in Markets /\ r.quote_created_at_secs \in Nat
                 /\ r.quote_created_at_secs <= now
                 => PartyViolations(r) \subseteq PartyViolations(r)'
      BY <2>1, StainsStay
    <3>4. PICK r : r = q
      OBVIOUS
    <3>5. PartyViolations(r) \subseteq PartyViolations(r)'
      BY <3>1, <3>2, <3>3, <3>4
    <3>6. PartyViolations(r)' = PartyViolations(quotes[p])'
      BY <3>4 DEF PartyViolations
    <3> QED BY <3>4, <3>5, <3>6
  <2>4. Broken(ps) # {} \/ Failing(ps) # {}
    BY WhenItClears
  <2>5. (VerifyPartyContexts(ps).kind = "Clear" =>
            Broken(ps) = {} /\ Failing(ps) = {})'
    BY <1>1
  <2> QED BY <2>2, <2>3, <2>4, <2>5
<1> QED BY DarkPoolInvariant, <1>2, PTL DEF Spec, TimeNeverClears
=============================================================================
