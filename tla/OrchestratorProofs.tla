------------------------ MODULE OrchestratorProofs ------------------------
(***************************************************************************)
(* Proofs about the orchestrator, for any agents, retry limits, backoffs,  *)
(* tasks and start anchors: its state is well typed, the receipts of a run *)
(* account for each other, a failure has a reason, no two receipts of a    *)
(* run sign the same, and it implements its contract.                      *)
(*   Before that, what its steps are committed under: the root determines  *)
(* the execution context, for every length of digests and every set of     *)
(* cells. Two roots that agree are split field by field from the left: a   *)
(* field of fixed width can be cut off, and the two fields without one     *)
(* begin with a cell that tells how long they are.                         *)
(***************************************************************************)
EXTENDS Orchestrator, SequenceTheorems, Arithmetic

-----------------------------------------------------------------------------
(* The execution-context root *)

\* Equal sequences that begin with parts of one length agree in the parts.
LEMMA CutOff ==
    ASSUME NEW u \in Seq(Cells), NEW v \in Seq(Cells),
           NEW w \in Seq(Cells), NEW z \in Seq(Cells),
           Len(u) = Len(v), u \o w = v \o z
    PROVE  u = v /\ w = z
<1>0. Len(u) \in Nat /\ Len(w) \in Nat /\ Len(z) \in Nat
  BY LenProperties
<1>1. Len(u \o w) = Len(u) + Len(w) /\ Len(v \o z) = Len(v) + Len(z)
  BY ConcatProperties
<1>2. Len(w) = Len(z)
  BY <1>0, <1>1
<1>3. ASSUME NEW i \in 1..Len(u) PROVE u[i] = v[i]
  <2>1. (u \o w)[i] = u[i] /\ (v \o z)[i] = v[i]
    BY <1>0, ConcatProperties
  <2> QED BY <2>1
<1>4. ASSUME NEW i \in 1..Len(w) PROVE w[i] = z[i]
  <2>1. Len(u) + i \in 1 .. Len(u) + Len(w) /\ ~(Len(u) + i <= Len(u))
    BY <1>0
  <2>2. (u \o w)[Len(u) + i] = w[Len(u) + i - Len(u)]
    BY <2>1, ConcatProperties
  <2>3. (v \o z)[Len(u) + i] = z[Len(u) + i - Len(u)]
    BY <1>2, <2>1, ConcatProperties
  <2> QED BY <1>0, <2>2, <2>3
<1>5. u = v
  BY <1>3, SeqEqual
<1>6. w = z
  BY <1>2, <1>4, SeqEqual
<1> QED BY <1>5, <1>6

\* The same with a name, so that its instances are found by it.
SplitsAlike(u, v, w, z) ==
    Len(u) = Len(v) /\ u \o w = v \o z => u = v /\ w = z
LEMMA Splits ==
    ASSUME NEW u \in Seq(Cells), NEW v \in Seq(Cells),
           NEW w \in Seq(Cells), NEW z \in Seq(Cells)
    PROVE  SplitsAlike(u, v, w, z)
BY CutOff, Zenon DEF SplitsAlike

LEMMA DigestIsSeq ==
    ASSUME NEW h \in Hash32
    PROVE  h \in Seq(Cells) /\ Len(h) = HashLen
<1>1. /\ HashLen \in Nat /\ h \in [1..HashLen -> Cells]
      /\ DOMAIN h = 1..HashLen
  BY ContextRootAssumption DEF Hash32
<1>2. h \in Seq(Cells)
  BY <1>1
<1>3. Len(h) = HashLen
  BY <1>1, <1>2
<1> QED BY <1>2, <1>3

\* The encoding of an attention kernel is a prefix code: whatever follows,
\* the kernels are the same.
EncodesAlike(a, b, x, y) ==
    Encoding(a) \o x = Encoding(b) \o y => a = b /\ x = y
LEMMA EncodingIsPrefixFree ==
    ASSUME NEW a \in AttentionImpl, NEW b \in AttentionImpl,
           NEW x \in Seq(Cells), NEW y \in Seq(Cells)
    PROVE  EncodesAlike(a, b, x, y)
<1> SUFFICES ASSUME Encoding(a) \o x = Encoding(b) \o y
             PROVE  a = b /\ x = y
  BY DEF EncodesAlike
<1>1. /\ Encoding(a) \in Seq(Cells) /\ Encoding(b) \in Seq(Cells)
      /\ Encoding(a)[1] \in {1, 2, 3, 128} /\ Encoding(b)[1] \in {1, 2, 3, 128}
      /\ Len(Encoding(a)) = IF Encoding(a)[1] = 128 THEN 2 ELSE 1
      /\ Len(Encoding(b)) = IF Encoding(b)[1] = 128 THEN 2 ELSE 1
  BY ContextRootAssumption DEF Encoding, AttentionImpl
<1>2. Encoding(a)[1] = Encoding(b)[1]
  <2>1. /\ (Encoding(a) \o x)[1] = Encoding(a)[1]
        /\ (Encoding(b) \o y)[1] = Encoding(b)[1]
    BY <1>1, LenProperties, ConcatProperties
  <2> QED BY <2>1
<1>3. Len(Encoding(a)) = Len(Encoding(b))
  BY <1>1, <1>2
<1>4. Encoding(a) = Encoding(b) /\ x = y
  <2> DEFINE ea == Encoding(a)
             eb == Encoding(b)
  <2>1. /\ ea \in Seq(Cells) /\ eb \in Seq(Cells)
        /\ Len(ea) = Len(eb) /\ ea \o x = eb \o y
    BY <1>1, <1>3
  <2> HIDE DEF ea, eb
  <2>2. ea = eb /\ x = y
    BY <2>1, CutOff
  <2> QED BY <2>2 DEF ea, eb
<1>5. a.impl = b.impl
  BY <1>2 DEF Encoding, AttentionImpl
<1>6. a.tag = b.tag
  <2>1. CASE a.impl = "Other"
    <3>1. Encoding(a) = <<128, a.tag>> /\ Encoding(b) = <<128, b.tag>>
      BY <1>5, <2>1 DEF Encoding
    <3>2. <<128, a.tag>> = <<128, b.tag>>
      BY <1>4, <3>1
    <3>3. <<128, a.tag>>[2] = a.tag /\ <<128, b.tag>>[2] = b.tag
      OBVIOUS
    <3> QED BY <3>2, <3>3, Zenon
  <2>2. CASE a.impl # "Other"
    BY <1>5, <2>2 DEF AttentionImpl
  <2> QED BY <2>1, <2>2
<1>7. a = b
  BY <1>5, <1>6 DEF AttentionImpl
<1> QED BY <1>4, <1>7

LEMMA CacheBytesAreInjective ==
    ASSUME NEW r \in Hash32 \cup {NoCache}, NEW q \in Hash32 \cup {NoCache},
           CacheBytes(r) = CacheBytes(q)
    PROVE  r = q
<1>1. ASSUME NEW h \in Hash32 PROVE <<1>> \o h # <<0>>
  <2>1. h \in Seq(Cells) /\ <<1>> \in Seq(Cells) /\ <<0>>[1] = 0
    BY DigestIsSeq, ContextRootAssumption
  <2>2. (<<1>> \o h)[1] = 1
    BY <2>1
  <2>3. <<0>>[1] # (<<1>> \o h)[1]
    BY <2>1, <2>2
  <2> QED BY <2>3, Zenon
<1>2. CASE r = NoCache \/ q = NoCache
  BY <1>1, <1>2 DEF CacheBytes
<1>3. CASE r # NoCache /\ q # NoCache
  <2>1. r \in Seq(Cells) /\ q \in Seq(Cells) /\ <<1>> \in Seq(Cells)
    BY <1>3, DigestIsSeq, ContextRootAssumption
  <2>2. <<1>> \o r = <<1>> \o q
    BY <1>3 DEF CacheBytes
  <2> QED BY <2>1, <2>2, CutOff
<1> QED BY <1>2, <1>3

LEMMA SamplingBytesAreInjective ==
    ASSUME NEW s \in SamplingParams, NEW t \in SamplingParams
    PROVE  /\ SamplingBytes(s) \in Seq(Cells) /\ Len(SamplingBytes(s)) = 4
           /\ SamplingBytes(s) = SamplingBytes(t) => s = t
<1>1. SamplingBytes(s) \in Seq(Cells) /\ Len(SamplingBytes(s)) = 4
  BY DEF SamplingBytes, SamplingParams
<1>2. ASSUME SamplingBytes(s) = SamplingBytes(t) PROVE s = t
  <2>1. \A i \in 1..4 : SamplingBytes(s)[i] = SamplingBytes(t)[i]
    BY <1>2
  <2>2. /\ s.temperature = t.temperature /\ s.top_k = t.top_k
        /\ s.top_p = t.top_p /\ s.seed = t.seed
    BY <2>1 DEF SamplingBytes
  <2> QED BY <2>2 DEF SamplingParams
<1> QED BY <1>1, <1>2

LEMMA DiscriminantIsInjective ==
    ASSUME NEW p \in PrecisionMode, NEW r \in PrecisionMode
    PROVE  /\ <<Discriminant(p)>> \in Seq(Cells)
           /\ Len(<<Discriminant(p)>>) = 1
           /\ <<Discriminant(p)>> = <<Discriminant(r)>> => p = r
<1>1. Discriminant(p) \in Cells /\ (Discriminant(p) = Discriminant(r) => p = r)
  BY ContextRootAssumption DEF Discriminant, PrecisionMode
<1>2. <<Discriminant(p)>>[1] = Discriminant(p) /\ <<Discriminant(r)>>[1] = Discriminant(r)
  OBVIOUS
<1> QED BY <1>1, <1>2

\* What is used of concatenation, over cells.
LEMMA Concat ==
    ASSUME NEW u \in Seq(Cells), NEW v \in Seq(Cells)
    PROVE  u \o v \in Seq(Cells) /\ Len(u \o v) = Len(u) + Len(v)
BY ConcatProperties

Associates(u, v, w) == (u \o v) \o w = u \o (v \o w)
LEMMA Associative ==
    ASSUME NEW u \in Seq(Cells), NEW v \in Seq(Cells), NEW w \in Seq(Cells)
    PROVE  Associates(u, v, w)
BY ConcatAssociative DEF Associates

\* Cutting off twice.
SplitAlike3(a, b, c, x, y, z) ==
    Len(a) = Len(x) /\ Len(b) = Len(y) /\ a \o b \o c = x \o y \o z
        => a = x /\ b = y /\ c = z
LEMMA CutThree ==
    ASSUME NEW a \in Seq(Cells), NEW b \in Seq(Cells), NEW c \in Seq(Cells),
           NEW x \in Seq(Cells), NEW y \in Seq(Cells), NEW z \in Seq(Cells)
    PROVE  SplitAlike3(a, b, c, x, y, z)
<1> SUFFICES ASSUME Len(a) = Len(x), Len(b) = Len(y),
                    a \o b \o c = x \o y \o z
             PROVE  a = x /\ b = y /\ c = z
  BY DEF SplitAlike3
<1>1. PICK ab : ab = a \o b
  OBVIOUS
<1>2. PICK xy : xy = x \o y
  OBVIOUS
<1>3. ab \in Seq(Cells) /\ Len(ab) = Len(a) + Len(b)
  BY <1>1, Concat
<1>4. xy \in Seq(Cells) /\ Len(xy) = Len(x) + Len(y)
  BY <1>2, Concat
<1>5. Len(ab) = Len(xy) /\ ab \o c = xy \o z
  BY <1>1, <1>2, <1>3, <1>4
<1>6. SplitsAlike(ab, xy, c, z) /\ SplitsAlike(a, x, b, y)
  BY <1>3, <1>4, Splits
<1>7. ab = xy /\ c = z
  BY <1>5, <1>6 DEF SplitsAlike
<1>8. a = x /\ b = y
  BY <1>1, <1>2, <1>6, <1>7 DEF SplitsAlike
<1> QED BY <1>7, <1>8

LEMMA ConfigBytesAreInjective ==
    ASSUME NEW i \in InferenceConfig, NEW j \in InferenceConfig
    PROVE  /\ ConfigBytes(i) \in Seq(Cells)
           /\ Len(ConfigBytes(i)) = 1 + HashLen + HashLen
           /\ ConfigBytes(i) = ConfigBytes(j) => i = j
<1>1. PICK m : m = <<i.max_tokens>>
  OBVIOUS
<1>2. PICK n : n = <<j.max_tokens>>
  OBVIOUS
<1>3. PICK s : s = i.stop_sequences_root
  OBVIOUS
<1>4. PICK t : t = j.stop_sequences_root
  OBVIOUS
<1>5. PICK p : p = i.penalty_params_root
  OBVIOUS
<1>6. PICK q : q = j.penalty_params_root
  OBVIOUS
<1>7. /\ m \in Seq(Cells) /\ Len(m) = 1 /\ m[1] = i.max_tokens
      /\ n \in Seq(Cells) /\ Len(n) = 1 /\ n[1] = j.max_tokens
  BY <1>1, <1>2 DEF InferenceConfig
<1>8. /\ s \in Seq(Cells) /\ Len(s) = HashLen
      /\ t \in Seq(Cells) /\ Len(t) = HashLen
      /\ p \in Seq(Cells) /\ Len(p) = HashLen
      /\ q \in Seq(Cells) /\ Len(q) = HashLen
  BY <1>3, <1>4, <1>5, <1>6, DigestIsSeq DEF InferenceConfig
<1>9. ConfigBytes(i) = m \o s \o p /\ ConfigBytes(j) = n \o t \o q
  BY <1>1, <1>2, <1>3, <1>4, <1>5, <1>6 DEF ConfigBytes
<1>10. /\ ConfigBytes(i) \in Seq(Cells)
       /\ Len(ConfigBytes(i)) = 1 + HashLen + HashLen
  <2>1. PICK ms : ms = m \o s
    OBVIOUS
  <2>2. ms \in Seq(Cells) /\ Len(ms) = 1 + HashLen
    <3>1. m \o s \in Seq(Cells) /\ Len(m \o s) = Len(m) + Len(s)
      BY <1>7, <1>8, Concat
    <3> QED BY <1>7, <1>8, <2>1, <3>1
  <2>3. ms \o p \in Seq(Cells) /\ Len(ms \o p) = 1 + HashLen + HashLen
    BY <1>8, <2>2, Concat
  <2> QED BY <1>9, <2>1, <2>3
<1>11. ASSUME ConfigBytes(i) = ConfigBytes(j) PROVE i = j
  <2>1. m \o s \o p = n \o t \o q
    BY <1>9, <1>11
  <2>2. m = n /\ s = t /\ p = q
    <3>1. Len(m) = Len(n) /\ Len(s) = Len(t)
      BY <1>7, <1>8
    <3>2. SplitAlike3(m, s, p, n, t, q)
      BY <1>7, <1>8, CutThree
    <3> QED BY <2>1, <3>1, <3>2 DEF SplitAlike3
  <2>3. i.max_tokens = j.max_tokens
    BY <1>7, <2>2, Zenon
  <2>4. /\ i.stop_sequences_root = j.stop_sequences_root
        /\ i.penalty_params_root = j.penalty_params_root
    BY <1>3, <1>4, <1>5, <1>6, <2>2
  <2> QED BY <2>3, <2>4 DEF InferenceConfig
<1> QED BY <1>10, <1>11

\* A concatenation of eight parts may be read from either end.
ReadsFromTheLeft(a, b, c, d, e, f, g, h) ==
    /\ g \o h \in Seq(Cells)
    /\ f \o (g \o h) \in Seq(Cells)
    /\ e \o (f \o (g \o h)) \in Seq(Cells)
    /\ d \o (e \o (f \o (g \o h))) \in Seq(Cells)
    /\ c \o (d \o (e \o (f \o (g \o h)))) \in Seq(Cells)
    /\ b \o (c \o (d \o (e \o (f \o (g \o h))))) \in Seq(Cells)
    /\ a \o b \o c \o d \o e \o f \o g \o h
         = a \o (b \o (c \o (d \o (e \o (f \o (g \o h))))))
LEMMA FromTheLeft ==
    ASSUME NEW a \in Seq(Cells), NEW b \in Seq(Cells), NEW c \in Seq(Cells),
           NEW d \in Seq(Cells), NEW e \in Seq(Cells), NEW f \in Seq(Cells),
           NEW g \in Seq(Cells), NEW h \in Seq(Cells)
    PROVE  ReadsFromTheLeft(a, b, c, d, e, f, g, h)
<1>1. PICK gh : gh = g \o h
  OBVIOUS
<1>2. PICK fh : fh = f \o gh
  OBVIOUS
<1>3. PICK eh : eh = e \o fh
  OBVIOUS
<1>4. PICK dh : dh = d \o eh
  OBVIOUS
<1>5. PICK ch : ch = c \o dh
  OBVIOUS
<1>6. PICK bh : bh = b \o ch
  OBVIOUS
<1>7. PICK ab : ab = a \o b
  OBVIOUS
<1>8. PICK ac : ac = ab \o c
  OBVIOUS
<1>9. PICK ad : ad = ac \o d
  OBVIOUS
<1>10. PICK ae : ae = ad \o e
  OBVIOUS
<1>11. PICK af : af = ae \o f
  OBVIOUS
<1>21. gh \in Seq(Cells) BY <1>1, Concat
<1>22. fh \in Seq(Cells) BY <1>2, <1>21, Concat
<1>23. eh \in Seq(Cells) BY <1>3, <1>22, Concat
<1>24. dh \in Seq(Cells) BY <1>4, <1>23, Concat
<1>25. ch \in Seq(Cells) BY <1>5, <1>24, Concat
<1>26. bh \in Seq(Cells) BY <1>6, <1>25, Concat
<1>27. ab \in Seq(Cells) BY <1>7, Concat
<1>28. ac \in Seq(Cells) BY <1>8, <1>27, Concat
<1>29. ad \in Seq(Cells) BY <1>9, <1>28, Concat
<1>30. ae \in Seq(Cells) BY <1>10, <1>29, Concat
<1>31. af \in Seq(Cells) BY <1>11, <1>30, Concat
<1>41. (af \o g) \o h = af \o gh
  <2>1. Associates(af, g, h)
    BY <1>31, Associative
  <2> QED BY <1>1, <2>1 DEF Associates
<1>42. af \o gh = ae \o fh
  <2>1. Associates(ae, f, gh)
    BY <1>21, <1>30, Associative
  <2> QED BY <1>2, <1>11, <2>1 DEF Associates
<1>43. ae \o fh = ad \o eh
  <2>1. Associates(ad, e, fh)
    BY <1>22, <1>29, Associative
  <2> QED BY <1>3, <1>10, <2>1 DEF Associates
<1>44. ad \o eh = ac \o dh
  <2>1. Associates(ac, d, eh)
    BY <1>23, <1>28, Associative
  <2> QED BY <1>4, <1>9, <2>1 DEF Associates
<1>45. ac \o dh = ab \o ch
  <2>1. Associates(ab, c, dh)
    BY <1>24, <1>27, Associative
  <2> QED BY <1>5, <1>8, <2>1 DEF Associates
<1>46. ab \o ch = a \o bh
  <2>1. Associates(a, b, ch)
    BY <1>25, Associative
  <2> QED BY <1>6, <1>7, <2>1 DEF Associates
<1>47. (af \o g) \o h = a \o bh
  BY <1>41, <1>42, <1>43, <1>44, <1>45, <1>46, <1>6, <1>7
<1>48. ((((((a \o b) \o c) \o d) \o e) \o f) \o g) \o h = (af \o g) \o h
  BY <1>7, <1>8, <1>9, <1>10, <1>11
<1> QED
  BY <1>1, <1>2, <1>3, <1>4, <1>5, <1>6, <1>48,
     <1>21, <1>22, <1>23, <1>24, <1>25, <1>26, <1>47 DEF ReadsFromTheLeft

-----------------------------------------------------------------------------
\* The root from the end: what is left of it after the first fields.
FromManifest(k)  == k.input_manifest_root \o CacheBytes(k.kv_cache_root)
FromConfig(k)    == ConfigBytes(k.inference_config) \o FromManifest(k)
FromPrecision(k) == <<Discriminant(k.precision_mode)>> \o FromConfig(k)
FromAttention(k) == Encoding(k.attention_impl_id) \o FromPrecision(k)
FromRuntime(k)   == k.runtime_version \o FromAttention(k)
FromSampling(k)  == SamplingBytes(k.sampling_params) \o FromRuntime(k)
Hashes(k) == k.weights_hash \o k.tokenizer_hash \o k.system_prompt_hash

\* Each field is a sequence of cells, of a width that is known.
LEMMA FieldsAreSeqs ==
    ASSUME NEW k \in ExecutionContext
    PROVE  /\ Hashes(k) \in Seq(Cells)
           /\ Len(Hashes(k)) = HashLen + HashLen + HashLen
           /\ SamplingBytes(k.sampling_params) \in Seq(Cells)
           /\ Len(SamplingBytes(k.sampling_params)) = 4
           /\ k.runtime_version \in Seq(Cells) /\ Len(k.runtime_version) = HashLen
           /\ Encoding(k.attention_impl_id) \in Seq(Cells)
           /\ <<Discriminant(k.precision_mode)>> \in Seq(Cells)
           /\ Len(<<Discriminant(k.precision_mode)>>) = 1
           /\ ConfigBytes(k.inference_config) \in Seq(Cells)
           /\ Len(ConfigBytes(k.inference_config)) = 1 + HashLen + HashLen
           /\ k.input_manifest_root \in Seq(Cells)
           /\ Len(k.input_manifest_root) = HashLen
           /\ CacheBytes(k.kv_cache_root) \in Seq(Cells)
<1>1. /\ k.weights_hash \in Hash32 /\ k.tokenizer_hash \in Hash32
      /\ k.system_prompt_hash \in Hash32 /\ k.runtime_version \in Hash32
      /\ k.input_manifest_root \in Hash32
      /\ k.sampling_params \in SamplingParams
      /\ k.attention_impl_id \in AttentionImpl
      /\ k.precision_mode \in PrecisionMode
      /\ k.inference_config \in InferenceConfig
      /\ k.kv_cache_root \in Hash32 \cup {NoCache}
  BY DEF ExecutionContext
<1>2. Hashes(k) \in Seq(Cells) /\ Len(Hashes(k)) = HashLen + HashLen + HashLen
  <2>1. PICK w : w = k.weights_hash
    OBVIOUS
  <2>2. PICK t : t = k.tokenizer_hash
    OBVIOUS
  <2>3. PICK p : p = k.system_prompt_hash
    OBVIOUS
  <2>4. PICK wt : wt = w \o t
    OBVIOUS
  <2>5. /\ w \in Seq(Cells) /\ t \in Seq(Cells) /\ p \in Seq(Cells)
        /\ Len(w) = HashLen /\ Len(t) = HashLen /\ Len(p) = HashLen
    BY <1>1, <2>1, <2>2, <2>3, DigestIsSeq
  <2>6. wt \in Seq(Cells) /\ Len(wt) = HashLen + HashLen
    <3>1. w \o t \in Seq(Cells) /\ Len(w \o t) = Len(w) + Len(t)
      BY <2>5, Concat
    <3> QED BY <2>4, <2>5, <3>1
  <2>7. wt \o p \in Seq(Cells) /\ Len(wt \o p) = HashLen + HashLen + HashLen
    BY <2>5, <2>6, Concat
  <2> QED BY <2>1, <2>2, <2>3, <2>4, <2>7 DEF Hashes
<1>3. /\ k.runtime_version \in Seq(Cells) /\ Len(k.runtime_version) = HashLen
      /\ k.input_manifest_root \in Seq(Cells)
      /\ Len(k.input_manifest_root) = HashLen
  BY <1>1, DigestIsSeq
<1>4. Encoding(k.attention_impl_id) \in Seq(Cells)
  BY <1>1, ContextRootAssumption DEF Encoding, AttentionImpl
<1>5. CacheBytes(k.kv_cache_root) \in Seq(Cells)
  <2>1. <<0>> \in Seq(Cells) /\ <<1>> \in Seq(Cells)
    BY ContextRootAssumption
  <2>2. CASE k.kv_cache_root = NoCache
    BY <2>1, <2>2 DEF CacheBytes
  <2>3. CASE k.kv_cache_root # NoCache
    <3>1. k.kv_cache_root \in Seq(Cells)
      BY <1>1, <2>3, DigestIsSeq
    <3>2. <<1>> \o k.kv_cache_root \in Seq(Cells)
      BY <2>1, <3>1, Concat
    <3> QED BY <2>3, <3>2 DEF CacheBytes
  <2> QED BY <2>2, <2>3
<1> QED
  BY <1>1, <1>2, <1>3, <1>4, <1>5, SamplingBytesAreInjective,
     DiscriminantIsInjective, ConfigBytesAreInjective

LEMMA Layout ==
    ASSUME NEW k \in ExecutionContext
    PROVE  /\ FromManifest(k) \in Seq(Cells) /\ FromConfig(k) \in Seq(Cells)
           /\ FromPrecision(k) \in Seq(Cells) /\ FromAttention(k) \in Seq(Cells)
           /\ FromRuntime(k) \in Seq(Cells) /\ FromSampling(k) \in Seq(Cells)
           /\ MerkleRoot(k) = Hashes(k) \o FromSampling(k)
<1>1. PICK a : a = Hashes(k)
  OBVIOUS
<1>2. PICK b : b = SamplingBytes(k.sampling_params)
  OBVIOUS
<1>3. PICK c : c = k.runtime_version
  OBVIOUS
<1>4. PICK d : d = Encoding(k.attention_impl_id)
  OBVIOUS
<1>5. PICK e : e = <<Discriminant(k.precision_mode)>>
  OBVIOUS
<1>6. PICK f : f = ConfigBytes(k.inference_config)
  OBVIOUS
<1>7. PICK g : g = k.input_manifest_root
  OBVIOUS
<1>8. PICK h : h = CacheBytes(k.kv_cache_root)
  OBVIOUS
<1>9. /\ a \in Seq(Cells) /\ b \in Seq(Cells) /\ c \in Seq(Cells)
      /\ d \in Seq(Cells) /\ e \in Seq(Cells) /\ f \in Seq(Cells)
      /\ g \in Seq(Cells) /\ h \in Seq(Cells)
  BY <1>1, <1>2, <1>3, <1>4, <1>5, <1>6, <1>7, <1>8, FieldsAreSeqs
<1>10. MerkleRoot(k) = a \o b \o c \o d \o e \o f \o g \o h
  BY <1>1, <1>2, <1>3, <1>4, <1>5, <1>6, <1>7, <1>8, Zenon
     DEF MerkleRoot, Hashes
<1>11. /\ FromManifest(k) = g \o h
       /\ FromConfig(k) = f \o (g \o h)
       /\ FromPrecision(k) = e \o (f \o (g \o h))
       /\ FromAttention(k) = d \o (e \o (f \o (g \o h)))
       /\ FromRuntime(k) = c \o (d \o (e \o (f \o (g \o h))))
       /\ FromSampling(k) = b \o (c \o (d \o (e \o (f \o (g \o h)))))
  BY <1>2, <1>3, <1>4, <1>5, <1>6, <1>7, <1>8, Zenon
     DEF FromManifest, FromConfig, FromPrecision, FromAttention, FromRuntime,
         FromSampling
<1>12. ReadsFromTheLeft(a, b, c, d, e, f, g, h)
  BY <1>9, FromTheLeft
<1> QED BY <1>1, <1>10, <1>11, <1>12 DEF ReadsFromTheLeft

\* Contexts with the same root are the same: no field can be changed behind
\* a commitment, nor bytes be moved from one field to the next, although the
\* encoding has neither lengths nor separators
\* (ExecutionContextRoot::merkle_root).
THEOREM RootBindsContext ==
    ASSUME NEW c \in ExecutionContext, NEW d \in ExecutionContext,
           MerkleRoot(c) = MerkleRoot(d)
    PROVE  c = d
<1>1. Hashes(c) = Hashes(d) /\ FromSampling(c) = FromSampling(d)
  <2>1. SplitsAlike(Hashes(c), Hashes(d), FromSampling(c), FromSampling(d))
    BY FieldsAreSeqs, Layout, Splits
  <2>2. Len(Hashes(c)) = Len(Hashes(d))
    BY FieldsAreSeqs
  <2>3. Hashes(c) \o FromSampling(c) = Hashes(d) \o FromSampling(d)
    BY Layout
  <2> QED BY <2>1, <2>2, <2>3 DEF SplitsAlike
<1>2. /\ SamplingBytes(c.sampling_params) = SamplingBytes(d.sampling_params)
      /\ FromRuntime(c) = FromRuntime(d)
  <2>1. SplitsAlike(SamplingBytes(c.sampling_params),
                    SamplingBytes(d.sampling_params),
                    FromRuntime(c), FromRuntime(d))
    BY FieldsAreSeqs, Layout, Splits
  <2>2. Len(SamplingBytes(c.sampling_params)) = Len(SamplingBytes(d.sampling_params))
    BY FieldsAreSeqs
  <2> QED BY <1>1, <2>1, <2>2 DEF SplitsAlike, FromSampling
<1>3. c.runtime_version = d.runtime_version /\ FromAttention(c) = FromAttention(d)
  <2>1. SplitsAlike(c.runtime_version, d.runtime_version,
                    FromAttention(c), FromAttention(d))
    BY FieldsAreSeqs, Layout, Splits
  <2>2. Len(c.runtime_version) = Len(d.runtime_version)
    BY FieldsAreSeqs
  <2> QED BY <1>2, <2>1, <2>2 DEF SplitsAlike, FromRuntime
<1>4. c.attention_impl_id = d.attention_impl_id /\ FromPrecision(c) = FromPrecision(d)
  <2>1. c.attention_impl_id \in AttentionImpl /\ d.attention_impl_id \in AttentionImpl
    BY DEF ExecutionContext
  <2>2. Encoding(c.attention_impl_id) \o FromPrecision(c)
          = Encoding(d.attention_impl_id) \o FromPrecision(d)
    BY <1>3 DEF FromAttention
  <2>3. FromPrecision(c) \in Seq(Cells) /\ FromPrecision(d) \in Seq(Cells)
    BY Layout
  <2>4. EncodesAlike(c.attention_impl_id, d.attention_impl_id,
                     FromPrecision(c), FromPrecision(d))
    BY <2>1, <2>3, EncodingIsPrefixFree
  <2> QED BY <2>2, <2>4 DEF EncodesAlike
<1>5. /\ <<Discriminant(c.precision_mode)>> = <<Discriminant(d.precision_mode)>>
      /\ FromConfig(c) = FromConfig(d)
  <2>1. SplitsAlike(<<Discriminant(c.precision_mode)>>,
                    <<Discriminant(d.precision_mode)>>,
                    FromConfig(c), FromConfig(d))
    BY FieldsAreSeqs, Layout, Splits
  <2>2. Len(<<Discriminant(c.precision_mode)>>) = Len(<<Discriminant(d.precision_mode)>>)
    BY FieldsAreSeqs
  <2> QED BY <1>4, <2>1, <2>2 DEF SplitsAlike, FromPrecision
<1>6. /\ ConfigBytes(c.inference_config) = ConfigBytes(d.inference_config)
      /\ FromManifest(c) = FromManifest(d)
  <2>1. SplitsAlike(ConfigBytes(c.inference_config),
                    ConfigBytes(d.inference_config),
                    FromManifest(c), FromManifest(d))
    BY FieldsAreSeqs, Layout, Splits
  <2>2. Len(ConfigBytes(c.inference_config)) = Len(ConfigBytes(d.inference_config))
    BY FieldsAreSeqs
  <2> QED BY <1>5, <2>1, <2>2 DEF SplitsAlike, FromConfig
<1>7. /\ c.input_manifest_root = d.input_manifest_root
      /\ CacheBytes(c.kv_cache_root) = CacheBytes(d.kv_cache_root)
  <2>1. SplitsAlike(c.input_manifest_root, d.input_manifest_root,
                    CacheBytes(c.kv_cache_root), CacheBytes(d.kv_cache_root))
    BY FieldsAreSeqs, Splits
  <2>2. Len(c.input_manifest_root) = Len(d.input_manifest_root)
    BY FieldsAreSeqs
  <2> QED BY <1>6, <2>1, <2>2 DEF SplitsAlike, FromManifest
<1>8. /\ c.weights_hash = d.weights_hash
      /\ c.tokenizer_hash = d.tokenizer_hash
      /\ c.system_prompt_hash = d.system_prompt_hash
  <2>1. /\ c.weights_hash \in Hash32 /\ c.tokenizer_hash \in Hash32
        /\ c.system_prompt_hash \in Hash32
        /\ d.weights_hash \in Hash32 /\ d.tokenizer_hash \in Hash32
        /\ d.system_prompt_hash \in Hash32
    BY DEF ExecutionContext
  <2>2. /\ c.weights_hash \in Seq(Cells) /\ c.tokenizer_hash \in Seq(Cells)
        /\ c.system_prompt_hash \in Seq(Cells)
        /\ d.weights_hash \in Seq(Cells) /\ d.tokenizer_hash \in Seq(Cells)
        /\ d.system_prompt_hash \in Seq(Cells)
        /\ Len(c.weights_hash) = Len(d.weights_hash)
        /\ Len(c.tokenizer_hash) = Len(d.tokenizer_hash)
    BY <2>1, DigestIsSeq
  <2>3. SplitAlike3(c.weights_hash, c.tokenizer_hash, c.system_prompt_hash,
                    d.weights_hash, d.tokenizer_hash, d.system_prompt_hash)
    BY <2>2, CutThree
  <2> QED BY <1>1, <2>2, <2>3 DEF SplitAlike3, Hashes
<1>9. c.sampling_params = d.sampling_params
  BY <1>2, SamplingBytesAreInjective DEF ExecutionContext
<1>10. c.precision_mode = d.precision_mode
  BY <1>5, DiscriminantIsInjective DEF ExecutionContext
<1>11. c.inference_config = d.inference_config
  BY <1>6, ConfigBytesAreInjective DEF ExecutionContext
<1>12. c.kv_cache_root = d.kv_cache_root
  BY <1>7, CacheBytesAreInjective DEF ExecutionContext
<1> QED
  BY <1>3, <1>4, <1>7, <1>8, <1>9, <1>10, <1>11, <1>12 DEF ExecutionContext

-----------------------------------------------------------------------------
(* The inductive invariant *)

\* The roots of steps; what matters of them here is only that they are values.
Roots == {StepRoot(agent, t) : agent \in Agent, t \in AgentTask}
Receipt ==
    [context_root : Roots, anchor : TripleAnchor, output_hash : Outputs,
     vendor : {"MockSoftware"},
     signed : [context_root : Roots, anchor : TripleAnchor,
               output_hash : Outputs]]

\* What an agent reads is what agents of the kind it reads from write.
Shape ==
    /\ commitments \in Seq(Receipt)
    /\ mem["price_e6"] \in [bytes : Nat] \cup {Missing}
    /\ mem["signal"] \in [bytes : Nat] \cup {Missing}
    /\ attempt = 1 \/ attempt <= MaxRetries

\* The agent at work has failed once for each attempt but the current one, the
\* agents after it not at all.
Counting ==
    status = "running" =>
        \A k \in DOMAIN Agents : k >= step =>
            failure_count[k] =
                failures_before[k] + (IF k = step THEN attempt - 1 ELSE 0)

\* The anchor k steps after a.
StepTicks == StepSecs * NanosPerSec
After(a, k) == [block_height |-> a.block_height + k,
                tee_timestamp |-> a.tee_timestamp + k * StepTicks,
                drand_round |-> a.drand_round]

\* Each receipt is one step after the one before.
Timing ==
    /\ current_anchor = After(start_anchor, step - 1)
    /\ \A i \in DOMAIN commitments :
          /\ commitments[i].anchor = After(start_anchor, i - 1)
          /\ commitments[i].signed.anchor = commitments[i].anchor

\* Receipt j is the last one, so far, of an agent of identity d.
IsLast(j, d) == /\ Agents[j].identity = d
                /\ \A l \in j + 1 .. step - 1 : Agents[l].identity # d

\* The memory holds, under the key of an identity, the output of the last
\* receipt of that identity in this run, and nothing else.
Remembers ==
    \A d \in Identities :
        \/ /\ mem[KeyOf(d)] = Missing
           /\ \A j \in 1 .. step - 1 : Agents[j].identity # d
        \/ \E j \in 1 .. step - 1 :
              IsLast(j, d) /\ mem[KeyOf(d)] = commitments[j].output_hash

IInv == /\ TypeOK /\ Shape /\ Counting /\ Timing /\ Remembers
        /\ OutputsAreAccountedFor /\ FailuresAreExplained

-----------------------------------------------------------------------------
(* Types *)

\* The first state is well typed.
LEMMA TypesInit == Init => TypeOK /\ Shape
<1> SUFFICES ASSUME Init PROVE TypeOK /\ Shape
  OBVIOUS
<1>1. /\ orchestrator \in [agents : Seq(Agent), max_retries : Nat,
                           backoff_base_ms : Nat]
      /\ task \in AgentTask /\ current_anchor \in TripleAnchor
  BY OrchestratorAssumption DEF Init
<1>2. Agents \in Seq(Agent) /\ 1 <= Len(Agents) + 1
  BY <1>1 DEF Agents
<1>3. mem \in [Keys -> Outputs \cup {Missing}]
  BY DEF Init
<1>4. mem["price_e6"] = Missing /\ mem["signal"] = Missing
  BY DEF Init, Keys
<1>5. failure_count \in [DOMAIN Agents -> Nat]
  BY DEF Init
<1>6. commitments \in Seq(Receipt) /\ Len(commitments) = 0
  BY DEF Init
<1> QED BY <1>1, <1>2, <1>3, <1>4, <1>5, <1>6 DEF Init, TypeOK, Shape

\* What an agent that finds its input computes is an output of its kind.
LEMMA ComputedType ==
    ASSUME TypeOK, Shape, Answers("Ok")
    PROVE  LET agent == Agents[step]
               out == Computed(agent, task.task_id, Read(agent, mem)) IN
           /\ agent \in Agent
           /\ out \in Outputs
           /\ agent.identity # "settlement" => out \in [bytes : Nat]
<1> DEFINE agent == Agents[step]
           out == Computed(agent, task.task_id, Read(agent, mem))
<1>1. agent \in Agent
  BY DEF TypeOK, Answers, Agents
<1>2. CASE agent.identity = "oracle-price"
  BY <1>1, <1>2, OrchestratorAssumption DEF Computed, Outputs
<1>3. CASE agent.identity = "decision"
  <2>1. Signal(agent, Read(agent, mem).bytes) \in Nat
    BY DEF Signal
  <2> QED BY <1>1, <1>3, <2>1 DEF Computed, Outputs
<1>4. CASE agent.identity = "settlement"
  <2>1. Read(agent, mem) = mem["signal"]
    BY <1>4 DEF Read, Provider, KeyOf
  <2>2. mem["signal"] # Missing
    BY <1>4 DEF Answers, Answer, Provider, KeyOf
  <2>3. mem["signal"] \in [bytes : Nat] /\ task.task_id \in Cells
    BY <2>2 DEF Shape, TypeOK, AgentTask
  <2> QED BY <1>1, <1>4, <2>1, <2>3 DEF Computed, Outputs
<1> QED BY <1>1, <1>2, <1>3, <1>4 DEF Agent, Identities

-----------------------------------------------------------------------------
(* The clocks of an anchor that is moved on *)

\* Wall times and tolerances are natural numbers.
LEMMA WallTimesAreNat ==
    ASSUME NEW a \in TripleAnchor
    PROVE  /\ TeeWallTimeSecs(a) \in Nat /\ DrandWallTimeSecs(a) \in Nat
           /\ BlockWallTimeSecs(a) \in Nat
           /\ TeeDrandTolerance \in Nat /\ BlockTolerance \in Nat
<1>1. \A x, y \in Nat : SaturatingMul(x, y) \in Nat
  BY AnchorAssumption DEF SaturatingMul
<1>2. \A x, y \in Nat : WrappingAdd(x, y) \in Nat
  BY AnchorAssumption DEF WrappingAdd
<1>3. TeeWallTimeSecs(a) \in Nat
  <2>1. a.tee_timestamp \div NanosPerSec \in Nat
    BY AnchorAssumption, FloorOfQuotient DEF TripleAnchor
  <2> QED BY <2>1, AnchorAssumption DEF TeeWallTimeSecs
<1>4. /\ SaturatingMul(a.drand_round, DrandPeriod) \in Nat
      /\ SaturatingMul(a.block_height, BlockPeriod) \in Nat
      /\ SaturatingMul(DrandSkew, DrandPeriod) \in Nat
      /\ SaturatingMul(BlockSkew, BlockPeriod) \in Nat
  BY <1>1, AnchorAssumption DEF TripleAnchor
<1> QED BY <1>2, <1>3, <1>4, AnchorAssumption
    DEF DrandWallTimeSecs, BlockWallTimeSecs, TeeDrandTolerance, BlockTolerance

\* As long as there is room, the enclave clock and the chain of an anchor
\* moved on by k steps show StepSecs * k more than before.
LEMMA ClocksMoveOn ==
    ASSUME NEW a \in TripleAnchor, NEW k \in Nat, LeavesRoom(a, k)
    PROVE  /\ TeeWallTimeSecs(After(a, k)) = TeeWallTimeSecs(a) + StepSecs * k
           /\ DrandWallTimeSecs(After(a, k)) = DrandWallTimeSecs(a)
           /\ RealAnchors => BlockWallTimeSecs(After(a, k)) =
                                BlockWallTimeSecs(a) + StepSecs * k
<1> DEFINE b == After(a, k)
           ahead == StepSecs * k
           top == U64Max + 1
<1>1. /\ a.tee_timestamp \in Nat /\ a.block_height \in Nat
      /\ ahead \in Nat /\ top \in Nat \ {0} /\ U64Max \in Nat
      /\ NanosPerSec \in Nat \ {0} /\ BaseGenesis \in Nat
  BY AnchorAssumption DEF TripleAnchor, StepSecs
<1>2. TeeWallTimeSecs(b) = TeeWallTimeSecs(a) + ahead
  <2>1. b.tee_timestamp = a.tee_timestamp + ahead * NanosPerSec
    <3>1. k * (StepSecs * NanosPerSec) = (StepSecs * k) * NanosPerSec
      BY AnchorAssumption DEF StepSecs
    <3> QED BY <3>1 DEF After, StepTicks
  <2> DEFINE t == a.tee_timestamp \div NanosPerSec
  <2> HIDE DEF ahead, top
  <2>2. b.tee_timestamp \div NanosPerSec = t + ahead
    <3> DEFINE tee == a.tee_timestamp
    <3>1. tee \in Nat
      BY <1>1
    <3> HIDE DEF tee, b
    <3>2. (tee + ahead * NanosPerSec) \div NanosPerSec = tee \div NanosPerSec + ahead
      BY <1>1, <3>1, QuotientOfSum
    <3> QED BY <2>1, <3>2 DEF tee
  <2>3. t \in Nat
    BY <1>1, FloorOfQuotient
  <2>4. (t % top) + ahead <= U64Max
    BY DEF LeavesRoom, TeeWallTimeSecs, ahead, top
  <2>5. t % top \in Nat
    BY <1>1, <2>3
  <2> HIDE DEF t
  <2>6. (t % top) + ahead < top
    BY <1>1, <2>4, <2>5 DEF top
  <2>7. (t + ahead) % top = (t % top) + ahead
    BY <1>1, <2>3, <2>6, RemainderOfSum
  <2> QED BY <2>2, <2>7 DEF TeeWallTimeSecs, t, top
<1>3. DrandWallTimeSecs(b) = DrandWallTimeSecs(a)
  BY DEF DrandWallTimeSecs, After
<1>4. ASSUME RealAnchors
      PROVE  BlockWallTimeSecs(b) = BlockWallTimeSecs(a) + ahead
  <2>1. /\ BlockPeriod = 2
        /\ BaseGenesis + BlockPeriod * (a.block_height + k) <= U64Max
    BY <1>4 DEF LeavesRoom, StepSecs
  <2>2. ASSUME NEW h \in Nat, h <= a.block_height + k
        PROVE  WrappingAdd(BaseGenesis, SaturatingMul(h, BlockPeriod)) =
                  BaseGenesis + 2 * h
    <3>1. h * BlockPeriod <= U64Max /\ h * BlockPeriod = 2 * h
      BY <1>1, <2>1, <2>2
    <3>2. SaturatingMul(h, BlockPeriod) = 2 * h
      BY <1>1, <3>1 DEF SaturatingMul
    <3>3. BaseGenesis + 2 * h \in Nat /\ BaseGenesis + 2 * h < top
      BY <1>1, <2>1, <2>2
    <3> QED BY <1>1, <3>2, <3>3, SmallRemainder DEF WrappingAdd
  <2>3. b.block_height = a.block_height + k
    BY DEF After
  <2> QED BY <1>1, <2>2, <2>3 DEF BlockWallTimeSecs, StepSecs
<1> QED BY <1>2, <1>3, <1>4

\* Where there is room for k steps, the anchor after k steps is consistent.
LEMMA RoomIsEnough ==
    ASSUME NEW a \in TripleAnchor, NEW k \in Nat, LeavesRoom(a, k)
    PROVE  InternallyConsistent(After(a, k))
<1> DEFINE b == After(a, k)
           ahead == StepSecs * k
<1>1. ahead \in Nat
  BY DEF StepSecs
<1>2. /\ TeeWallTimeSecs(a) \in Nat /\ DrandWallTimeSecs(a) \in Nat
      /\ BlockWallTimeSecs(a) \in Nat
      /\ TeeDrandTolerance \in Nat /\ BlockTolerance \in Nat
  BY WallTimesAreNat
<1>3. /\ DrandWallTimeSecs(a) <= TeeWallTimeSecs(a) + TeeDrandTolerance
      /\ TeeWallTimeSecs(a) + ahead <= DrandWallTimeSecs(a) + TeeDrandTolerance
      /\ RealAnchors =>
           /\ DrandWallTimeSecs(a) <= BlockWallTimeSecs(a) + BlockTolerance
           /\ BlockWallTimeSecs(a) + ahead <= DrandWallTimeSecs(a) + BlockTolerance
  BY DEF LeavesRoom
<1>4. /\ TeeWallTimeSecs(b) = TeeWallTimeSecs(a) + ahead
      /\ DrandWallTimeSecs(b) = DrandWallTimeSecs(a)
      /\ RealAnchors => BlockWallTimeSecs(b) = BlockWallTimeSecs(a) + ahead
  BY ClocksMoveOn
<1> HIDE DEF b, ahead
<1>5. TeeDrandConsistent(b)
  BY <1>1, <1>2, <1>3, <1>4 DEF TeeDrandConsistent, AbsDiff
<1>6. ASSUME RealAnchors
      PROVE  AbsDiff(BlockWallTimeSecs(b), DrandWallTimeSecs(b)) <= BlockTolerance
  BY <1>1, <1>2, <1>3, <1>4, <1>6 DEF AbsDiff
<1> QED BY <1>5, <1>6 DEF InternallyConsistent, b

-----------------------------------------------------------------------------
(* Every step preserves the invariant *)

\* Anchors move on step by step.
LEMMA AfterSteps ==
    ASSUME NEW a \in TripleAnchor, NEW k \in Nat
    PROVE  After(a, 0) = a /\ NextAnchor(After(a, k)) = After(a, k + 1)
<1>1. StepTicks \in Nat
  BY AnchorAssumption DEF StepTicks, StepSecs
<1>2. /\ a.block_height \in Nat /\ a.tee_timestamp \in Nat
      /\ a = [block_height |-> a.block_height, tee_timestamp |-> a.tee_timestamp,
             drand_round |-> a.drand_round]
  BY DEF TripleAnchor
<1>3. After(a, 0) = a
  <2>1. 0 * StepTicks = 0
    BY <1>1
  <2> QED BY <1>2, <2>1 DEF After
<1>4. NextAnchor(After(a, k)) = After(a, k + 1)
  <2> DEFINE d == k * StepTicks
             e == (k + 1) * StepTicks
  <2>1. d \in Nat /\ e = d + StepTicks
    BY <1>1
  <2> HIDE DEF d, e
  <2>2. /\ (a.tee_timestamp + d) + StepTicks = a.tee_timestamp + e
        /\ (a.block_height + k) + 1 = a.block_height + (k + 1)
    BY <1>1, <1>2, <2>1
  <2>3. NextAnchor(After(a, k)) =
          [block_height |-> (a.block_height + k) + 1,
           tee_timestamp |-> (a.tee_timestamp + d) + StepTicks,
           drand_round |-> a.drand_round]
    BY DEF NextAnchor, After, StepTicks, d
  <2> QED BY <2>2, <2>3 DEF After, e
<1> QED BY <1>3, <1>4

\* A new run starts from nothing but the failures of its agents.
LEMMA StartKeeps == IInv /\ Start => IInv'
<1> SUFFICES ASSUME IInv, NEW t \in Tasks, NEW anchor \in StartAnchors,
                    Run(t, anchor)
             PROVE  IInv'
  BY DEF Start
<1> USE DEF IInv
<1>1. /\ mem' = [key \in Keys |-> Missing] /\ commitments' = <<>>
      /\ step' = 1 /\ attempt' = 1 /\ status' = "running"
      /\ current_anchor' = anchor /\ start_anchor' = anchor
      /\ failure_count' = failure_count /\ failures_before' = failure_count
      /\ orchestrator' = orchestrator
  BY DEF Run
<1>2. t \in AgentTask /\ anchor \in TripleAnchor
  BY OrchestratorAssumption
<1>3. TypeOK'
  <2>1. mem' \in [Keys -> Outputs \cup {Missing}]
    BY <1>1
  <2>2. Len(commitments') = 0
    BY <1>1
  <2>3. Agents' = Agents /\ Agents \in Seq(Agent) /\ 1 <= Len(Agents) + 1
    BY <1>1 DEF Agents, TypeOK
  <2> QED BY <1>1, <1>2, <2>1, <2>2, <2>3 DEF TypeOK, Run
<1>4. mem'["price_e6"] = Missing /\ mem'["signal"] = Missing
  BY <1>1 DEF Keys
<1>5. Shape'
  BY <1>1, <1>4 DEF Shape
<1>6. Counting'
  <2> SUFFICES ASSUME NEW k \in DOMAIN Agents'
               PROVE  failure_count'[k] =
                        failures_before'[k] + (IF k = step' THEN attempt' - 1 ELSE 0)
    BY DEF Counting
  <2>1. failure_count[k] \in Nat
    BY <1>1 DEF TypeOK, Agents
  <2> QED BY <1>1, <2>1
<1>7. Timing'
  <2>1. anchor = After(anchor, 0)
    BY <1>2, AfterSteps
  <2> QED BY <1>1, <2>1 DEF Timing
<1>8. Remembers'
  <2> SUFFICES ASSUME NEW d \in Identities
               PROVE  mem'[KeyOf(d)] = Missing
    BY <1>1 DEF Remembers
  <2>1. KeyOf(d) \in Keys
    BY DEF KeyOf, Keys, Identities
  <2> QED BY <1>1, <2>1
<1>9. OutputsAreAccountedFor'
  BY <1>1 DEF OutputsAreAccountedFor
<1>10. FailuresAreExplained'
  BY <1>1 DEF FailuresAreExplained
<1> QED BY <1>3, <1>5, <1>6, <1>7, <1>8, <1>9, <1>10

\* An agent that succeeds adds one receipt and one value to the memory.
LEMMA SucceedKeeps == IInv /\ Succeed => IInv'
<1> SUFFICES ASSUME IInv, Succeed PROVE IInv'
  OBVIOUS
<1> DEFINE agent == Agents[step]
           out == Computed(agent, task.task_id, Read(agent, mem))
           receipt == Committed(StepRoot(agent, task), current_anchor, out,
                                "MockSoftware")
           key == KeyOf(agent.identity)
<1> USE DEF IInv
<1>1. /\ mem' = [mem EXCEPT ![key] = out]
      /\ commitments' = Append(commitments, receipt)
      /\ current_anchor' = NextAnchor(current_anchor)
      /\ step' = step + 1 /\ attempt' = 1 /\ status = "running"
      /\ UNCHANGED <<orchestrator, failure_count, status, task, outcome, history>>
  BY DEF Succeed, Answers
<1>2. /\ agent \in Agent /\ out \in Outputs
      /\ agent.identity # "settlement" => out \in [bytes : Nat]
  BY ComputedType DEF Succeed
<1>3. /\ step \in 1 .. Len(Agents) /\ attempt \in Nat /\ step \in Nat
      /\ Agents \in Seq(Agent) /\ Agents' = Agents
      /\ commitments \in Seq(Receipt) /\ Len(commitments) = step - 1
      /\ task \in AgentTask /\ current_anchor \in TripleAnchor
      /\ mem \in [Keys -> Outputs \cup {Missing}]
  BY <1>1 DEF Succeed, Answers, TypeOK, Shape, Agents
<1>4. agent.identity \in Identities /\ key \in Keys
  BY <1>2 DEF Agent, Identities, KeyOf, Keys
<1>5. receipt \in Receipt /\ receipt.output_hash = out
      /\ receipt.anchor = current_anchor
      /\ receipt.signed.anchor = current_anchor
  <2>1. StepRoot(agent, task) \in Roots
    BY <1>2, <1>3 DEF Roots
  <2> QED BY <1>2, <1>3, <2>1 DEF Receipt, Committed, SigningDigest
<1> HIDE DEF agent, out, receipt, key
<1>6. /\ commitments' \in Seq(Receipt)
      /\ Len(commitments') = step' - 1
      /\ DOMAIN commitments' = 1 .. step
      /\ DOMAIN commitments = 1 .. step - 1
      /\ \A i \in 1 .. step - 1 : commitments'[i] = commitments[i]
      /\ commitments'[step] = receipt
  BY <1>1, <1>3, <1>5
<1>7. TypeOK'
  <2>1. mem' \in [Keys -> Outputs \cup {Missing}]
    BY <1>1, <1>2, <1>3
  <2>2. NextAnchor(current_anchor) \in TripleAnchor
    <3>1. /\ current_anchor.block_height + 1 \in Nat
          /\ current_anchor.tee_timestamp \in Nat
          /\ StepSecs * NanosPerSec \in Nat
      BY <1>3, AnchorAssumption DEF TripleAnchor, StepSecs
    <3> DEFINE d == StepSecs * NanosPerSec
    <3>2. current_anchor.tee_timestamp + d \in Nat
      <4> HIDE DEF d
      <4> QED BY <3>1 DEF d
    <3> QED BY <1>3, <3>1, <3>2 DEF NextAnchor, TripleAnchor
  <2> QED BY <1>1, <1>3, <1>6, <2>1, <2>2 DEF TypeOK, outcome, history, Agents
<1>8. Shape'
  <2>1. mem'["price_e6"] \in [bytes : Nat] \cup {Missing}
    BY <1>1, <1>2, <1>3, <1>4 DEF Shape, Keys, key, KeyOf
  <2>2. mem'["signal"] \in [bytes : Nat] \cup {Missing}
    BY <1>1, <1>2, <1>3, <1>4 DEF Shape, Keys, key, KeyOf
  <2> QED BY <1>1, <1>6, <2>1, <2>2 DEF Shape
<1>9. Counting'
  <2> SUFFICES ASSUME NEW k \in DOMAIN Agents, k >= step + 1
               PROVE  failure_count[k] =
                        failures_before[k] + (IF k = step + 1 THEN 0 ELSE 0)
    BY <1>1, <1>3 DEF Counting, history
  <2>1. failures_before[k] \in Nat /\ k \in Nat
    BY <1>3 DEF TypeOK
  <2> QED BY <1>1, <1>3, <2>1 DEF Counting
<1>10. Timing'
  <2>1. /\ start_anchor' = start_anchor /\ start_anchor \in TripleAnchor
        /\ current_anchor = After(start_anchor, step - 1)
    BY <1>1 DEF history, Timing, TypeOK
  <2>2. current_anchor' = After(start_anchor, step)
    <3>1. step - 1 \in Nat /\ (step - 1) + 1 = step
      BY <1>3
    <3> QED BY <1>1, <2>1, <3>1, AfterSteps
  <2>3. step' - 1 = step
    BY <1>1, <1>3
  <2>4. ASSUME NEW i \in 1 .. step
        PROVE  /\ commitments'[i].anchor = After(start_anchor, i - 1)
               /\ commitments'[i].signed.anchor = commitments'[i].anchor
    <3>1. CASE i = step
      BY <1>3, <1>5, <1>6, <2>1, <3>1
    <3>2. CASE i # step
      <4>1. i \in DOMAIN commitments /\ commitments'[i] = commitments[i]
        BY <1>3, <1>6, <3>2
      <4> QED BY <4>1 DEF Timing
    <3> QED BY <3>1, <3>2
  <2> QED BY <1>6, <2>1, <2>2, <2>3, <2>4 DEF Timing
<1>11. Remembers'
  <2> SUFFICES ASSUME NEW d \in Identities
      PROVE  \/ /\ mem'[KeyOf(d)] = Missing
                /\ \A j \in 1 .. step : Agents[j].identity # d
             \/ \E j \in 1 .. step :
                   /\ Agents[j].identity = d
                   /\ \A l \in j + 1 .. step : Agents[l].identity # d
                   /\ mem'[KeyOf(d)] = commitments'[j].output_hash
    BY <1>1, <1>3 DEF Remembers, IsLast
  <2>1. CASE d = agent.identity
    <3>1. mem'[KeyOf(d)] = commitments'[step].output_hash
      BY <1>1, <1>3, <1>4, <1>5, <1>6, <2>1 DEF key
    <3> QED BY <1>3, <2>1, <3>1 DEF agent
  <2>2. CASE d # agent.identity
    <3>1. KeyOf(d) # key /\ KeyOf(d) \in Keys
      BY <1>4, <2>2 DEF key, KeyOf, Keys, Identities
    <3>2. mem'[KeyOf(d)] = mem[KeyOf(d)]
      BY <1>1, <1>3, <3>1
    <3>3. Agents[step].identity # d
      BY <2>2 DEF agent
    <3>4. CASE /\ mem[KeyOf(d)] = Missing
               /\ \A j \in 1 .. step - 1 : Agents[j].identity # d
      <4>1. \A j \in 1 .. step : Agents[j].identity # d
        BY <1>3, <3>3, <3>4
      <4> QED BY <3>2, <3>4, <4>1
    <3>5. ASSUME NEW j \in 1 .. step - 1, IsLast(j, d),
                 mem[KeyOf(d)] = commitments[j].output_hash
          PROVE  \E i \in 1 .. step :
                   /\ Agents[i].identity = d
                   /\ \A l \in i + 1 .. step : Agents[l].identity # d
                   /\ mem'[KeyOf(d)] = commitments'[i].output_hash
      <4>1. \A l \in j + 1 .. step : Agents[l].identity # d
        BY <1>3, <3>3, <3>5 DEF IsLast
      <4>2. j \in 1 .. step /\ commitments'[j] = commitments[j]
        BY <1>3, <1>6
      <4> QED BY <3>2, <3>5, <4>1, <4>2 DEF IsLast
    <3> QED BY <3>4, <3>5 DEF Remembers
  <2> QED BY <2>1, <2>2
<1>12. OutputsAreAccountedFor'
  <2> SUFFICES ASSUME NEW i \in 1 .. step
      PROVE  LET o == commitments'[i].output_hash IN
             IF Agents[i].identity = "oracle-price" THEN o = [bytes |-> Price]
             ELSE \E j \in 1 .. step :
                     /\ IsLastProvider(j, i)
                     /\ o = Computed(Agents[i], task.task_id,
                                     commitments'[j].output_hash)
    BY <1>1, <1>3, <1>6 DEF OutputsAreAccountedFor, IsLastProvider
  <2>1. CASE i # step
    <3>1. i \in DOMAIN commitments /\ commitments'[i] = commitments[i]
      BY <1>3, <1>6, <2>1
    <3>2. CASE Agents[i].identity = "oracle-price"
      BY <3>1, <3>2 DEF OutputsAreAccountedFor
    <3>3. CASE Agents[i].identity # "oracle-price"
      <4>1. PICK j \in DOMAIN commitments :
               /\ IsLastProvider(j, i)
               /\ commitments[i].output_hash =
                    Computed(Agents[i], task.task_id, commitments[j].output_hash)
        BY <3>1, <3>3 DEF OutputsAreAccountedFor
      <4>2. j \in 1 .. step /\ commitments'[j] = commitments[j]
        BY <1>3, <1>6
      <4> QED BY <3>1, <3>3, <4>1, <4>2
    <3> QED BY <3>2, <3>3
  <2>2. CASE i = step /\ agent.identity = "oracle-price"
    BY <1>5, <1>6, <2>2 DEF agent, out, Computed
  <2>3. CASE i = step /\ agent.identity # "oracle-price"
    <3> DEFINE d == Provider[agent.identity]
    <3>1. d \in Identities
      BY <1>4, <2>3 DEF Provider, Identities
    <3>2. mem[KeyOf(d)] # Missing
      BY <2>3 DEF Succeed, Answers, Answer, agent
    <3>3. PICK j \in 1 .. step - 1 :
             IsLast(j, d) /\ mem[KeyOf(d)] = commitments[j].output_hash
      BY <3>1, <3>2 DEF Remembers
    <3>4. out = Computed(agent, task.task_id, commitments'[j].output_hash)
      BY <1>6, <2>3, <3>3 DEF out, Read
    <3>5. IsLastProvider(j, step)
      BY <1>3, <3>3 DEF IsLast, IsLastProvider, agent
    <3> QED BY <1>3, <1>5, <1>6, <2>3, <3>4, <3>5 DEF agent
  <2> QED BY <2>1, <2>2, <2>3
<1>13. FailuresAreExplained'
  BY <1>1 DEF FailuresAreExplained
<1> QED BY <1>7, <1>8, <1>9, <1>10, <1>11, <1>12, <1>13

\* Steps that add no receipt.
Adds == ~UNCHANGED <<orchestrator, task, mem, commitments, current_anchor, step,
                     history>>

LEMMA NothingAdded ==
    ASSUME IInv, ~Adds
    PROVE  Timing' /\ Remembers' /\ OutputsAreAccountedFor'
<1> USE DEF IInv, Adds, history
<1>1. Timing'
  BY DEF Timing
<1>2. Remembers'
  BY DEF Remembers, IsLast, Agents
<1>3. OutputsAreAccountedFor'
  BY DEF OutputsAreAccountedFor, IsLastProvider, Agents
<1> QED BY <1>1, <1>2, <1>3

\* An agent that fails transiently has a failure ahead of it.
LEMMA TransientFacts ==
    ASSUME IInv, Answers("Transient")
    PROVE  /\ status = "running" /\ step \in DOMAIN Agents /\ attempt <= MaxRetries
           /\ attempt \in Nat \ {0} /\ MaxRetries \in Nat
           /\ failure_count \in [DOMAIN Agents -> Nat]
           /\ failures_before \in [DOMAIN Agents -> Nat]
           /\ failure_count[step] = failures_before[step] + attempt - 1
           /\ StillFails(step, attempt)
<1> USE DEF IInv
<1>1. /\ status = "running" /\ step \in DOMAIN Agents /\ attempt <= MaxRetries
      /\ attempt \in Nat \ {0} /\ MaxRetries \in Nat
      /\ failure_count \in [DOMAIN Agents -> Nat]
      /\ failures_before \in [DOMAIN Agents -> Nat]
      /\ Agents[step] \in Agent /\ step \in Nat
  BY DEF Answers, TypeOK, Agents, MaxRetries
<1>2. failure_count[step] = failures_before[step] + (attempt - 1)
  BY <1>1 DEF Counting
<1>3. /\ Agents[step].identity = "oracle-price"
      /\ failure_count[step] < Agents[step].flakiness_seed
  BY DEF Answers, Answer
<1>4. Agents[step].flakiness_seed \in Nat
  BY <1>1 DEF Agent
<1>5. StillFails(step, attempt)
  BY <1>1, <1>2, <1>3, <1>4 DEF StillFails
<1> QED BY <1>1, <1>2, <1>5

\* An attempt that failed and may be followed by another.
LEMMA RetryKeeps == IInv /\ Retry => IInv'
<1> SUFFICES ASSUME IInv, Retry PROVE IInv'
  OBVIOUS
<1> USE DEF IInv
<1>1. /\ failure_count' = [failure_count EXCEPT ![step] = @ + 1]
      /\ attempt < MaxRetries
      /\ \/ attempt' = attempt + 1 /\ status' = "running"
         \/ attempt' = attempt /\ status' = "panicked" /\ ~BackoffFits(attempt)
      /\ UNCHANGED <<orchestrator, task, mem, commitments, current_anchor, step,
                     outcome, history>>
  BY DEF Retry, Answers
<1>2. /\ status = "running" /\ step \in DOMAIN Agents /\ attempt <= MaxRetries
      /\ attempt \in Nat \ {0} /\ MaxRetries \in Nat
      /\ failure_count \in [DOMAIN Agents -> Nat]
      /\ failures_before \in [DOMAIN Agents -> Nat]
      /\ failure_count[step] = failures_before[step] + attempt - 1
      /\ StillFails(step, attempt)
  BY TransientFacts DEF Retry
<1>3. Timing' /\ Remembers' /\ OutputsAreAccountedFor'
  BY <1>1, NothingAdded DEF Adds
<1>4. Agents' = Agents /\ MaxRetries' = MaxRetries
  BY <1>1 DEF Agents, MaxRetries
<1>5. failure_count' \in [DOMAIN Agents -> Nat]
  BY <1>1, <1>2
<1>6. TypeOK'
  <2>1. (/\ failure_count \in [DOMAIN Agents -> Nat]
         /\ failures_before \in [DOMAIN Agents -> Nat]
         /\ Len(commitments) = step - 1 /\ step <= Len(Agents) + 1)'
    BY <1>1, <1>2, <1>4, <1>5 DEF TypeOK, history
  <2>2. (/\ status \in {"idle", "running", "complete", "failed", "panicked"}
         /\ step \in Nat \ {0} /\ attempt \in Nat \ {0})'
    BY <1>1, <1>2 DEF TypeOK
  <2> QED BY <1>1, <2>1, <2>2 DEF TypeOK, outcome, history
<1>7. Shape'
  BY <1>1, <1>2, <1>4 DEF Shape
<1>8. Counting'
  <2> SUFFICES ASSUME status' = "running", NEW k \in DOMAIN Agents, k >= step
               PROVE  failure_count'[k] =
                        failures_before[k] + (IF k = step THEN attempt' - 1 ELSE 0)
    BY <1>1, <1>4 DEF Counting, history
  <2>1. attempt' = attempt + 1
    BY <1>1
  <2>2. CASE k = step
    BY <1>1, <1>2, <2>1, <2>2
  <2>3. CASE k # step
    BY <1>1, <1>2, <2>3 DEF Counting
  <2> QED BY <2>2, <2>3
<1>9. FailuresAreExplained'
  <2> SUFFICES ASSUME status' = "panicked"
               PROVE  (\E n \in 1 .. MaxRetries - 1 :
                         ~BackoffFits(n) /\ StillFails(step, n))'
    BY <1>1 DEF FailuresAreExplained
  <2>1. ~BackoffFits(attempt) /\ attempt \in 1 .. MaxRetries' - 1
    BY <1>1, <1>2, <1>4
  <2>2. attempt' = attempt
    BY <1>1
  <2>3. ~BackoffFits(attempt)'
    BY <1>1, <2>1, <2>2 DEF BackoffFits
  <2>4. StillFails(step, attempt)'
    BY <1>1, <1>2, <1>4, <2>2 DEF StillFails, history
  <2> QED BY <2>1, <2>2, <2>3, <2>4
<1> QED BY <1>3, <1>6, <1>7, <1>8, <1>9

\* The last attempt fails: the run ends.
LEMMA GiveUpKeeps == IInv /\ GiveUp => IInv'
<1> SUFFICES ASSUME IInv, GiveUp PROVE IInv'
  OBVIOUS
<1> USE DEF IInv
<1>1. /\ failure_count' = [failure_count EXCEPT ![step] = @ + 1]
      /\ attempt = MaxRetries /\ attempt' = attempt
      /\ status' = "failed" /\ failed_agent' = Agents[step].identity
      /\ error' = "Transient" /\ chain_hash' = chain_hash
      /\ UNCHANGED <<orchestrator, task, mem, commitments, current_anchor, step,
                     history>>
  BY DEF GiveUp, Failed
<1>2. /\ step \in DOMAIN Agents /\ attempt \in Nat \ {0}
      /\ failure_count \in [DOMAIN Agents -> Nat]
      /\ StillFails(step, attempt)
  BY TransientFacts DEF GiveUp
<1>3. Timing' /\ Remembers' /\ OutputsAreAccountedFor'
  BY <1>1, NothingAdded DEF Adds
<1>4. Agents' = Agents /\ MaxRetries' = MaxRetries
  BY <1>1 DEF Agents, MaxRetries
<1>5. /\ failure_count' \in [DOMAIN Agents -> Nat]
      /\ Agents[step].identity \in Identities
  <2>1. Agents[step] \in Agent
    BY <1>2 DEF TypeOK, Agents
  <2> QED BY <1>1, <1>2, <2>1 DEF Agent
<1>6. TypeOK'
  BY <1>1, <1>4, <1>5 DEF TypeOK, history
<1>7. Shape' /\ Counting'
  BY <1>1, <1>4 DEF Shape, Counting
<1>8. FailuresAreExplained'
  <2>1. StillFails(step, MaxRetries)'
    BY <1>1, <1>2, <1>4 DEF StillFails, history
  <2> QED BY <1>1, <2>1 DEF FailuresAreExplained
<1> QED BY <1>3, <1>6, <1>7, <1>8

\* An agent fails for good only if it was made so or its provider is missing.
LEMMA PermanentFacts ==
    ASSUME IInv, Answers("Permanent")
    PROVE  /\ step \in DOMAIN Agents
           /\ Agents[step].identity \in Identities
           /\ FailsForGood(step)
<1> USE DEF IInv
<1>1. /\ step \in DOMAIN Agents /\ Agents[step] \in Agent
      /\ step \in Nat \ {0}
  BY DEF Answers, TypeOK, Agents
<1>2. Agents[step].identity \in Identities
  BY <1>1 DEF Agent
<1>3. CASE Agents[step].identity = "oracle-price"
  <2>1. Agents[step].permanent
    BY <1>3 DEF Answers, Answer
  <2> QED BY <1>1, <1>2, <1>3, <2>1 DEF FailsForGood
<1>4. CASE Agents[step].identity # "oracle-price"
  <2> DEFINE d == Provider[Agents[step].identity]
  <2>1. d \in Identities
    BY <1>2, <1>4 DEF Provider, Identities
  <2>2. mem[KeyOf(d)] = Missing
    BY <1>4 DEF Answers, Answer
  <2>3. \A j \in 1 .. step - 1 : commitments[j].output_hash # Missing
    <3> TAKE j \in 1 .. step - 1
    <3>1. j \in DOMAIN commitments
      BY DEF TypeOK, Shape
    <3>2. commitments[j] \in Receipt
      BY <3>1 DEF Shape
    <3> QED BY <3>2, OrchestratorAssumption DEF Receipt
  <2>4. \A j \in 1 .. step - 1 : Agents[j].identity # d
    BY <2>1, <2>2, <2>3 DEF Remembers
  <2> QED BY <1>1, <1>2, <1>4, <2>4 DEF FailsForGood, LacksProvider
<1> QED BY <1>1, <1>2, <1>3, <1>4

\* The steps that end a run without another failure to count.
LEMMA EndKeeps == IInv /\ (Break \/ NeverTried \/ Seal) => IInv'
<1> SUFFICES ASSUME IInv, Break \/ NeverTried \/ Seal PROVE IInv'
  OBVIOUS
<1> USE DEF IInv
<1>1. UNCHANGED <<orchestrator, failure_count, task, mem, commitments,
                  current_anchor, step, attempt, history>>
  BY DEF Break, NeverTried, Seal
<1>2. Timing' /\ Remembers' /\ OutputsAreAccountedFor'
  BY <1>1, NothingAdded DEF Adds
<1>3. Agents' = Agents /\ MaxRetries' = MaxRetries
  BY <1>1 DEF Agents, MaxRetries
<1>4. status' \in {"failed", "complete"}
  BY DEF Break, NeverTried, Seal, Failed
<1>5. Shape' /\ Counting'
  BY <1>1, <1>3, <1>4 DEF Shape, Counting
<1>6. CASE Break
  <2>1. /\ status' = "failed" /\ error' = "Permanent"
        /\ failed_agent' = Agents[step].identity
    BY <1>6 DEF Break, Failed
  <2>2. FailsForGood(step) /\ Agents[step].identity \in Identities
    BY <1>6, PermanentFacts DEF Break
  <2>3. FailsForGood(step)'
    BY <1>1, <1>3, <2>2 DEF FailsForGood, LacksProvider
  <2>4. TypeOK'
    BY <1>1, <1>3, <2>1, <2>2 DEF TypeOK, history
  <2>5. FailuresAreExplained'
    BY <2>1, <2>3 DEF FailuresAreExplained
  <2> QED BY <1>2, <1>5, <2>4, <2>5
<1>7. CASE NeverTried
  <2>1. /\ status' = "failed" /\ error' = "unknown"
        /\ failed_agent' = Agents[step].identity
        /\ attempt > MaxRetries /\ step <= Len(Agents)
    BY <1>7 DEF NeverTried, Failed
  <2>2. Agents[step].identity \in Identities
    <3>1. Agents \in Seq(Agent) /\ step \in Nat \ {0}
      BY DEF TypeOK, Agents
    <3>2. Agents[step] \in Agent
      BY <2>1, <3>1
    <3> QED BY <3>2 DEF Agent
  <2>3. TypeOK'
    BY <1>1, <1>3, <2>1, <2>2 DEF TypeOK, history
  <2>4. attempt \in Nat /\ MaxRetries \in Nat
    BY DEF TypeOK, MaxRetries
  <2>5. MaxRetries' = 0
    BY <1>3, <2>1, <2>4 DEF Shape
  <2>6. FailuresAreExplained'
    BY <2>1, <2>5 DEF FailuresAreExplained
  <2> QED BY <1>2, <1>5, <2>3, <2>6
<1>8. CASE Seal
  <2>1. status' = "complete" /\ UNCHANGED <<failed_agent, error>>
    BY <1>8 DEF Seal
  <2>2. TypeOK'
    BY <1>1, <1>3, <2>1 DEF TypeOK, history
  <2>3. FailuresAreExplained'
    BY <2>1 DEF FailuresAreExplained
  <2> QED BY <1>2, <1>5, <2>2, <2>3
<1> QED BY <1>6, <1>7, <1>8

-----------------------------------------------------------------------------
(* The theorems *)

LEMMA Invariant == Spec => []IInv
<1>1. Init => IInv
  <2> SUFFICES ASSUME Init PROVE IInv
    OBVIOUS
  <2>1. TypeOK /\ Shape
    BY TypesInit
  <2>2. /\ status = "idle" /\ commitments = <<>> /\ step = 1
        /\ start_anchor = current_anchor
        /\ mem = [key \in Keys |-> Missing]
    BY DEF Init
  <2>3. Counting
    BY <2>2 DEF Counting
  <2>4. Timing
    <3>1. start_anchor = After(start_anchor, 0)
      BY <2>1, AfterSteps DEF TypeOK
    <3> QED BY <2>2, <3>1 DEF Timing
  <2>5. Remembers
    <3> SUFFICES ASSUME NEW d \in Identities PROVE mem[KeyOf(d)] = Missing
      BY <2>2 DEF Remembers
    <3>1. KeyOf(d) \in Keys
      BY DEF KeyOf, Keys, Identities
    <3> QED BY <2>2, <3>1
  <2>6. OutputsAreAccountedFor /\ FailuresAreExplained
    BY <2>2 DEF OutputsAreAccountedFor, FailuresAreExplained
  <2> QED BY <2>1, <2>3, <2>4, <2>5, <2>6 DEF IInv
<1>2. IInv /\ [Next]_vars => IInv'
  <2> SUFFICES ASSUME IInv, [Next]_vars PROVE IInv'
    OBVIOUS
  <2>1. CASE Start
    BY <2>1, StartKeeps
  <2>2. CASE Succeed
    BY <2>2, SucceedKeeps
  <2>3. CASE Retry
    BY <2>3, RetryKeeps
  <2>4. CASE GiveUp
    BY <2>4, GiveUpKeeps
  <2>5. CASE Break \/ NeverTried \/ Seal
    BY <2>5, EndKeeps
  <2>6. CASE UNCHANGED vars
    <3> USE <2>6 DEF vars, outcome, history, IInv
    <3>1. Timing' /\ Remembers' /\ OutputsAreAccountedFor'
      BY NothingAdded DEF Adds
    <3>2. TypeOK'
      BY DEF TypeOK, Agents
    <3>3. Shape' /\ Counting'
      BY DEF Shape, Counting, Agents, MaxRetries
    <3>4. FailuresAreExplained'
      BY DEF FailuresAreExplained, StillFails, FailsForGood, LacksProvider,
             BackoffFits, Agents, MaxRetries
    <3> QED BY <3>1, <3>2, <3>3, <3>4
  <2> QED BY <2>1, <2>2, <2>3, <2>4, <2>5, <2>6 DEF Next, RunStep
<1> QED BY <1>1, <1>2, PTL DEF Spec

\* The state of an orchestrator is well typed; a run has as many receipts as
\* agents that have succeeded (Orchestrator::run).
THEOREM TypeCorrect == Spec => []TypeOK
<1>1. IInv => TypeOK
  BY DEF IInv
<1> QED BY <1>1, Invariant, PTL

\* In every run of every pipeline each output is computed from the output of
\* the last receipt before it that its agent could read (MemoryStore,
\* Orchestrator::run).
THEOREM OutputsAccounted == Spec => []OutputsAreAccountedFor
<1>1. IInv => OutputsAreAccountedFor
  BY DEF IInv
<1> QED BY <1>1, Invariant, PTL

\* No run fails, and none panics, without one of the reasons that can be told
\* from its agents beforehand (Orchestrator::run_agent_with_retry).
THEOREM FailuresExplained == Spec => []FailuresAreExplained
<1>1. IInv => FailuresAreExplained
  BY DEF IInv
<1> QED BY <1>1, Invariant, PTL

\* However often an agent comes in a pipeline and whatever it computes, two
\* receipts of a run sign different digests (Orchestrator::run).
THEOREM ReceiptsDistinct == Spec => []ReceiptsAreDistinct
<1>1. IInv => ReceiptsAreDistinct
  <2> SUFFICES ASSUME IInv, NEW i \in DOMAIN commitments,
                      NEW j \in DOMAIN commitments, i # j
               PROVE  commitments[i].signed # commitments[j].signed
    BY DEF ReceiptsAreDistinct
  <2>1. /\ commitments[i].signed.anchor.block_height =
              start_anchor.block_height + i - 1
        /\ commitments[j].signed.anchor.block_height =
              start_anchor.block_height + j - 1
    <3>1. /\ commitments[i].signed.anchor = After(start_anchor, i - 1)
          /\ commitments[j].signed.anchor = After(start_anchor, j - 1)
      BY DEF IInv, Timing
    <3> QED BY <3>1 DEF After
  <2>2. start_anchor.block_height \in Nat
    BY DEF IInv, TypeOK, TripleAnchor
  <2>3. i \in Nat /\ j \in Nat
    <3>1. DOMAIN commitments \in SUBSET Nat
      BY DEF IInv, Shape
    <3> QED BY <3>1
  <2> QED BY <2>1, <2>2, <2>3
<1> QED BY <1>1, Invariant, PTL

\* Retries, backoff and memory only ever do what the contract says of receipts
\* and of how a run ends (Orchestrator::run).
THEOREM Implements == Spec => ImplementsContract
<1>1. Init => Contract!Init
  <2> SUFFICES ASSUME Init PROVE Contract!Init
    OBVIOUS
  <2>1. Len(Agents) \in Nat
    BY TypesInit DEF TypeOK, Agents
  <2> QED BY <2>1 DEF Init, Contract!Init
<1>2. IInv /\ [Next]_vars =>
        [Contract!Next]_<<Len(Agents),
                         IF status = "panicked" THEN "failed" ELSE status,
                         commitments>>
  <2> SUFFICES ASSUME IInv, [Next]_vars
               PROVE  \/ Contract!Next
                      \/ UNCHANGED <<Len(Agents),
                            IF status = "panicked" THEN "failed" ELSE status,
                            commitments>>
    OBVIOUS
  <2>1. /\ Agents \in Seq(Agent) /\ commitments \in Seq(Receipt)
        /\ Len(commitments) = step - 1 /\ step \in Nat \ {0}
        /\ step <= Len(Agents) + 1 /\ Len(Agents) \in Nat
    BY DEF IInv, TypeOK, Shape, Agents
  <2>2. Len(Agents)' = Len(Agents)
    BY DEF Next, RunStep, Start, Run, Succeed, Retry, GiveUp, Break, NeverTried,
           Seal, vars, Agents
  <2>3. CASE Start
    BY <2>2, <2>3 DEF Start, Run, Contract!Next, Contract!Start
  <2>4. CASE Succeed
    <3>1. PICK receipt : commitments' = Append(commitments, receipt)
      BY <2>4 DEF Succeed
    <3>2. /\ Len(commitments') = Len(commitments) + 1
          /\ \A i \in 1 .. Len(commitments) : commitments'[i] = commitments[i]
      BY <2>1, <3>1
    <3>3. step <= Len(Agents) /\ status = "running" /\ status' = status
      BY <2>4 DEF Succeed, Answers
    <3> QED BY <2>1, <2>2, <3>2, <3>3 DEF Contract!Next, Contract!Issue
  <2>5. CASE Retry \/ GiveUp \/ Break \/ NeverTried
    <3>1. /\ step <= Len(Agents) /\ status = "running"
          /\ status' \in {"running", "failed", "panicked"}
          /\ commitments' = commitments
      BY <2>5 DEF Retry, GiveUp, Break, NeverTried, Answers, Failed
    <3>2. Len(commitments) # Len(Agents)
      BY <2>1, <3>1
    <3> QED BY <2>2, <3>1, <3>2 DEF Contract!Next, Contract!Finish
  <2>6. CASE Seal
    <3>1. /\ step > Len(Agents) /\ status = "running" /\ status' = "complete"
          /\ commitments' = commitments
      BY <2>6 DEF Seal
    <3>2. Len(commitments) = Len(Agents)
      BY <2>1, <3>1
    <3> QED BY <2>2, <3>1, <3>2 DEF Contract!Next, Contract!Finish
  <2>7. CASE UNCHANGED vars
    BY <2>2, <2>7 DEF vars
  <2> QED BY <2>3, <2>4, <2>5, <2>6, <2>7 DEF Next, RunStep
<1> QED BY <1>1, <1>2, Invariant, PTL DEF Spec, ImplementsContract, Contract!Spec

\* The anchors of a run drift apart by StepSecs a step and stay consistent as
\* long as the start anchor leaves room for that (Orchestrator::run against
\* TripleAnchor::internally_consistent).
THEOREM ReceiptsConsistent == Spec => []ReceiptsStayConsistent
<1>1. IInv => ReceiptsStayConsistent
  <2> SUFFICES ASSUME IInv, NEW i \in DOMAIN commitments,
                      LeavesRoom(start_anchor, i - 1)
               PROVE  InternallyConsistent(commitments[i].anchor)
    BY DEF ReceiptsStayConsistent
  <2>1. commitments[i].anchor = After(start_anchor, i - 1)
    BY DEF IInv, Timing
  <2>2. start_anchor \in TripleAnchor /\ i - 1 \in Nat
    BY DEF IInv, TypeOK, Shape
  <2> QED BY <2>1, <2>2, RoomIsEnough
<1> QED BY <1>1, Invariant, PTL
=============================================================================
