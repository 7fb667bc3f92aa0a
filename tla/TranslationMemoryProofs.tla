---------------------- MODULE TranslationMemoryProofs ----------------------
(***************************************************************************)
(* What holds of TranslationMemory for an article of any length, any       *)
(* links, engines' replies, number of workers and number of runs.          *)
(***************************************************************************)
EXTENDS TranslationMemory, TLAPS

\* A chunk awaits a reply only while the article is translated.
Flying ==
  /\ phase # "translate" => inFlight = {}
  /\ \A c \in inFlight : status[c] = "PENDING"

DoneChunks == {d \in Chunks : status[d] \in Done}

\* What the chunks done so far have rendered is established.
DoneIsRecorded ==
  phase = "translate" =>
    \A d \in DoneChunks :
      /\ d \in DOMAIN text
      /\ \A t \in Links[d] : text[d].ill[t] # NoRendering => established[t] # NoRendering

RelayInv ==
  /\ TypeOK /\ Flying
  /\ phase = "translate" => \A c \in Chunks : earlier[c] \subseteq DoneChunks
  /\ DoneIsRecorded /\ LaterChunksAreTold /\ FactsStayTrue /\ EstablishedIsAccepted

\* What translate_chunk stored for a chunk of this run, and where.
KeyUsed(c) == Key(EffectiveModel(c), c, told[c])
Stored(c) ==
  status[c] \in {"TRANSLATED", "REPAIRED"} =>
    c \in DOMAIN text /\ KeyUsed(c) \in DOMAIN cache /\ cache[KeyUsed(c)] = text[c]

PersistInv ==
  /\ TypeOK /\ Flying
  /\ phase \in {"translate", "failed"} => \A c \in Chunks : Stored(c)

-----------------------------------------------------------------------------
(* Keys, texts and facts.                                                  *)

LEMMA PutIs ==
  ASSUME NEW f, NEW x, NEW y
  PROVE  /\ DOMAIN Put(f, x, y) = DOMAIN f \cup {x}
         /\ Put(f, x, y)[x] = y
         /\ \A z \in DOMAIN f : z # x => Put(f, x, y)[z] = f[z]
BY DEF Put

LEMMA KeyIs ==
  ASSUME NEW m \in Models, NEW c \in Chunks, NEW f \in Facts(c)
  PROVE  /\ Key(m, c, f) \in Keys
         /\ Key(m, c, f).model = m /\ Key(m, c, f).chunk = c /\ Key(m, c, f).facts = f
<1>1. Key(m, c, f) \in [model : Models, chunk : {c}, facts : Facts(c)]
  BY DEF Key
<1> QED BY <1>1 DEF Keys, Key

LEMMA KeyParts ==
  ASSUME NEW k \in Keys
  PROVE  /\ k.model \in Models /\ k.chunk \in Chunks
         /\ k.facts \in Facts(k.chunk)
         /\ k = Key(k.model, k.chunk, k.facts)
<1> PICK c \in Chunks : k \in [model : Models, chunk : {c}, facts : Facts(c)]
  BY DEF Keys
<1> QED BY DEF Key

LEMMA ModelIs == (\A c : EffectiveModel(c) \in Models) /\ PatchModel \in Models
BY DEF EffectiveModel, PatchModel, Models

LEMMA TextIs ==
  ASSUME NEW c \in Chunks, NEW x \in Texts(c)
  PROVE  x.ill \in [Links[c] -> Renderings \cup {NoRendering}]
BY DEF Texts

LEMMA FactsOfIs ==
  ASSUME TypeOK, NEW c \in Chunks
  PROVE  FactsOf(c) \in Facts(c) /\ \A t \in Links[c] : FactsOf(c)[t] = established[t]
<1>1. Links[c] \subseteq Titles
  BY ArticleAssumption
<1> QED BY <1>1 DEF FactsOf, Facts, TypeOK

LEMMA RecordIs ==
  ASSUME TypeOK, NEW c \in Chunks, NEW x \in Texts(c), Record(c, x)
  PROVE  /\ established' \in [Titles -> Renderings \cup {NoRendering}]
         /\ \A t \in Titles : established[t] # NoRendering => established'[t] = established[t]
         /\ \A t \in Titles \ Links[c] : established'[t] = established[t]
         /\ \A t \in Titles \cap Links[c] :
              established[t] = NoRendering => established'[t] = x.ill[t]
BY TextIs DEF Record, TypeOK

-----------------------------------------------------------------------------
LEMMA TypeInit == Init => TypeOK
<1> SUFFICES ASSUME Init PROVE TypeOK
  OBVIOUS
<1>1. \A c \in Chunks : told[c] \in Facts(c)
  BY DEF Init, ToldNothing, Facts
<1>2. /\ runs \in 1..MaxRuns /\ rounds = 0 /\ 0 \in 0..MaxRounds
      /\ repairs \in [Chunks -> 0..MaxRepairs]
  BY BoundsAssumption DEF Init
<1> QED
  BY <1>1, <1>2 DEF Init, TypeOK, AllPending, NoTexts, ToldNothing, Done

LEMMA AskType ==
  ASSUME TypeOK, NEW c \in Chunks, Ask(c)
  PROVE  /\ DOMAIN told' = Chunks /\ \A d \in Chunks : told'[d] \in Facts(d)
         /\ earlier' \in [Chunks -> SUBSET Chunks]
BY FactsOfIs DEF Ask, TypeOK

LEMMA TextType ==
  ASSUME TypeOK, NEW c \in Chunks, NEW x \in Texts(c), text' = Put(text, c, x)
  PROVE  DOMAIN text' \subseteq Chunks /\ \A d \in DOMAIN text' : text'[d] \in Texts(d)
BY DEF TypeOK, Put

LEMMA CacheType ==
  ASSUME TypeOK, NEW c \in Chunks, NEW x \in Texts(c), NEW m \in Models,
         NEW f \in Facts(c), cache' = Put(cache, Key(m, c, f), x)
  PROVE  /\ DOMAIN cache' \subseteq Keys
         /\ \A k \in DOMAIN cache' : cache'[k] \in Texts(k.chunk)
BY KeyIs DEF TypeOK, Put

LEMMA TypeStep == TypeOK /\ [Next]_vars => TypeOK'
<1> SUFFICES ASSUME TypeOK, [Next]_vars PROVE TypeOK'
  OBVIOUS
<1> USE DEF partVars, asmVars, history
<1>1. ASSUME NEW c \in Chunks, Hit(c) PROVE TypeOK'
  <2>1. cache[KeyFor(c)] \in Texts(c)
    BY <1>1, FactsOfIs, KeyIs, ModelIs DEF Hit, KeyFor, TypeOK
  <2>2. /\ DOMAIN told' = Chunks /\ \A d \in Chunks : told'[d] \in Facts(d)
        /\ earlier' \in [Chunks -> SUBSET Chunks]
    BY <1>1, AskType DEF Hit
  <2>3. DOMAIN text' \subseteq Chunks /\ \A d \in DOMAIN text' : text'[d] \in Texts(d)
    BY <1>1, <2>1, TextType DEF Hit
  <2>4. established' \in [Titles -> Renderings \cup {NoRendering}]
    BY <1>1, <2>1, RecordIs DEF Hit
  <2>5. status' \in [Chunks -> Done \cup {"PENDING", "FAILED"}]
    BY <1>1 DEF Hit, TypeOK, Done
  <2>6. failed' \in BOOLEAN /\ smooth' \in BOOLEAN
    BY <1>1 DEF Hit, TypeOK
  <2> QED
    BY <1>1, <2>2, <2>3, <2>4, <2>5, <2>6 DEF Hit, TypeOK
<1>2. ASSUME NEW c \in Chunks, Miss(c) PROVE TypeOK'
  <2>1. /\ DOMAIN told' = Chunks /\ \A d \in Chunks : told'[d] \in Facts(d)
        /\ earlier' \in [Chunks -> SUBSET Chunks]
    BY <1>2, AskType DEF Miss
  <2>2. smooth' \in BOOLEAN
    BY <1>2 DEF Miss, TypeOK
  <2> QED
    BY <1>2, <2>1, <2>2 DEF Miss, TypeOK
<1>3. ASSUME NEW c \in Chunks, Reply(c) PROVE TypeOK'
  <2> PICK x \in Texts(c) : text' = Put(text, c, x) /\ (Accept(c, x) \/ Refuse(c, x))
    BY <1>3 DEF Reply
  <2>1. DOMAIN text' \subseteq Chunks /\ \A d \in DOMAIN text' : text'[d] \in Texts(d)
    BY TextType
  <2>2. CASE Accept(c, x)
    <3>1. established' \in [Titles -> Renderings \cup {NoRendering}]
      BY <2>2, RecordIs DEF Accept
    <3>2. told[c] \in Facts(c)
      BY DEF TypeOK
    <3>3. cache' = Put(cache, Key(EffectiveModel(c), c, told[c]), x)
      BY <2>2 DEF Accept
    <3>4. /\ DOMAIN cache' \subseteq Keys
          /\ \A k \in DOMAIN cache' : cache'[k] \in Texts(k.chunk)
      BY <3>2, <3>3, CacheType, ModelIs
    <3>5. status' \in [Chunks -> Done \cup {"PENDING", "FAILED"}]
      BY <2>2 DEF Accept, TypeOK, Done
    <3> QED
      BY <1>3, <2>1, <2>2, <3>1, <3>4, <3>5 DEF Reply, Accept, TypeOK
  <2>3. CASE Refuse(c, x)
    BY <1>3, <2>1, <2>3 DEF Reply, Refuse, TypeOK
  <2> QED BY <2>2, <2>3
<1>4. ASSUME NEW c \in Chunks, Repair(c) PROVE TypeOK'
  <2>1. repairs' \in [Chunks -> 0..MaxRepairs]
    BY <1>4, BoundsAssumption DEF Repair, TypeOK
  <2> QED BY <1>4, <2>1 DEF Repair, TypeOK
<1>5. ASSUME NEW c \in Chunks, CallFails(c) PROVE TypeOK'
  BY <1>5 DEF CallFails, TypeOK
<1>6. CASE EndChunks
  BY <1>6 DEF EndChunks, TypeOK
<1>7. CASE TimeOut
  BY <1>7 DEF TimeOut, TypeOK
<1>8. CASE Validate \/ Review
  <2>1. rounds' \in 0..(IF phase' \in {"review", "saved"} THEN MaxReviews ELSE MaxRounds)
    BY <1>8, BoundsAssumption DEF Validate, Review, TypeOK
  <2>2. todo' \in SUBSET Chunks
    BY <1>8 DEF Validate, Review, TypeOK, Broken
  <2>3. phase' \in {"assembly", "review", "withheld", "saved"}
    BY <1>8 DEF Validate, Review
  <2> QED BY <1>8, <2>1, <2>2, <2>3 DEF Validate, Review, TypeOK
<1>9. ASSUME NEW c \in Chunks, Patch(c) PROVE TypeOK'
  <2> PICK x \in Texts(c) :
        /\ text' = Put(text, c, x)
        /\ cache' = Put(cache, Key(PatchModel, c, FactsOf(c)), x)
        /\ patched' = patched \cup {Key(PatchModel, c, FactsOf(c))}
    BY <1>9 DEF Patch
  <2>1. DOMAIN text' \subseteq Chunks /\ \A d \in DOMAIN text' : text'[d] \in Texts(d)
    BY TextType
  <2>2. FactsOf(c) \in Facts(c)
    BY FactsOfIs
  <2>3. /\ DOMAIN cache' \subseteq Keys
        /\ \A k \in DOMAIN cache' : cache'[k] \in Texts(k.chunk)
    BY <2>2, ModelIs, CacheType
  <2>4. patched' \in SUBSET Keys
    BY <2>2, ModelIs, KeyIs DEF TypeOK
  <2> QED BY <1>9, <2>1, <2>3, <2>4 DEF Patch, NextToPatch, TypeOK
<1>10. ASSUME NEW c \in Chunks, PatchFails(c) PROVE TypeOK'
  BY <1>10 DEF PatchFails, NextToPatch, TypeOK
<1>11. CASE Rerun
  <2>1. \A c \in Chunks : told'[c] \in Facts(c)
    BY <1>11 DEF Rerun, ToldNothing, Facts
  <2>2. /\ runs' \in 1..MaxRuns /\ rounds' = 0 /\ 0 \in 0..MaxRounds
        /\ repairs' \in [Chunks -> 0..MaxRepairs]
    BY <1>11, BoundsAssumption DEF Rerun, TypeOK
  <2> QED
    BY <1>11, <2>1, <2>2 DEF Rerun, TypeOK, AllPending, NoTexts, ToldNothing
<1>12. CASE UNCHANGED vars
  BY <1>12 DEF vars, TypeOK
<1> QED
  BY <1>1, <1>2, <1>3, <1>4, <1>5, <1>6, <1>7, <1>8, <1>9, <1>10, <1>11, <1>12
  DEF Next, ChunkStep, ArticleStep

\* Repair attempts and rounds keep within their limits, and every entry of the
\* memory is a text of the chunk its key names.
THEOREM MemoryTypeCorrect == Spec => []TypeOK
BY TypeInit, TypeStep, PTL DEF Spec

-----------------------------------------------------------------------------
LEMMA FlyingStep == TypeOK /\ Flying /\ [Next]_vars => Flying'
<1> SUFFICES ASSUME TypeOK, Flying, [Next]_vars PROVE Flying'
  OBVIOUS
<1> USE DEF partVars, asmVars, history, Flying, TypeOK
<1>1. ASSUME NEW c \in Chunks, Hit(c) \/ Miss(c) PROVE Flying'
  BY <1>1 DEF Hit, Miss, CanBegin
<1>2. ASSUME NEW c \in Chunks, Reply(c) PROVE Flying'
  BY <1>2 DEF Reply, Accept, Refuse
<1>3. ASSUME NEW c \in Chunks, Repair(c) \/ CallFails(c) PROVE Flying'
  BY <1>3 DEF Repair, CallFails
<1>4. CASE EndChunks \/ TimeOut \/ Validate \/ Review \/ Rerun
  BY <1>4 DEF EndChunks, TimeOut, Validate, Review, Rerun
<1>5. ASSUME NEW c \in Chunks, Patch(c) \/ PatchFails(c) PROVE Flying'
  BY <1>5 DEF Patch, PatchFails, NextToPatch
<1>6. CASE UNCHANGED vars
  BY <1>6 DEF vars
<1> QED
  BY <1>1, <1>2, <1>3, <1>4, <1>5, <1>6 DEF Next, ChunkStep, ArticleStep

LEMMA RelayInit == Init => RelayInv
BY TypeInit
DEF Init, RelayInv, Flying, DoneChunks, DoneIsRecorded, LaterChunksAreTold, FactsStayTrue,
    EstablishedIsAccepted, AllPending, ToldNothing, Done

\* A chunk that is done, from the memory or translated, hands on the renderings
\* of its text; nothing another chunk was told changes.
LEMMA FinishRelays ==
  ASSUME RelayInv, NEW c \in Chunks, NEW x \in Texts(c), NEW s \in Done,
         phase = "translate", phase' = phase, status[c] = "PENDING",
         status' = [status EXCEPT ![c] = s], text' = Put(text, c, x), Record(c, x)
  PROVE  /\ DoneChunks' = DoneChunks \cup {c}
         /\ DoneIsRecorded' /\ EstablishedIsAccepted'
         /\ \A d \in DoneChunks : d # c /\ text'[d] = text[d]
         /\ \A t \in Titles : established[t] # NoRendering => established'[t] = established[t]
<1>1. DoneChunks' = DoneChunks \cup {c} /\ c \notin DoneChunks
  BY DEF DoneChunks, RelayInv, TypeOK, Done
<1>2. /\ c \in DOMAIN text' /\ text'[c] = x
      /\ \A d \in DoneChunks : d # c /\ d \in DOMAIN text' /\ text'[d] = text[d]
  BY <1>1 DEF RelayInv, DoneIsRecorded, Put
<1>3. /\ \A t \in Titles : established[t] # NoRendering => established'[t] = established[t]
      /\ \A t \in Titles \ Links[c] : established'[t] = established[t]
      /\ \A t \in Titles \cap Links[c] : established[t] = NoRendering => established'[t] = x.ill[t]
  BY RecordIs DEF RelayInv
<1>4. \A d \in Chunks : Links[d] \subseteq Titles
  BY ArticleAssumption
<1>5. DoneIsRecorded'
  <2> SUFFICES ASSUME NEW d \in DoneChunks', NEW t \in Links[d], text'[d].ill[t] # NoRendering
               PROVE  established'[t] # NoRendering
    BY <1>1, <1>2 DEF DoneIsRecorded
  <2>1. d \in Chunks /\ t \in Titles
    BY <1>1, <1>4 DEF DoneChunks
  <2>2. CASE d = c
    BY <1>2, <1>3, <2>1, <2>2
  <2>3. CASE d \in DoneChunks
    BY <1>2, <1>3, <2>1, <2>3 DEF RelayInv, DoneIsRecorded
  <2> QED BY <1>1, <2>2, <2>3
<1>6. EstablishedIsAccepted'
  <2> SUFFICES ASSUME NEW t \in Titles, established'[t] # NoRendering
               PROVE  \E d \in DoneChunks' : t \in Links[d] /\ text'[d].ill[t] = established'[t]
    BY DEF EstablishedIsAccepted, DoneChunks
  <2>1. CASE established[t] # NoRendering
    <3> PICK d \in DoneChunks : t \in Links[d] /\ text[d].ill[t] = established[t]
      BY <2>1 DEF RelayInv, EstablishedIsAccepted, DoneChunks
    <3> QED BY <1>1, <1>2, <1>3, <2>1
  <2>2. CASE established[t] = NoRendering
    BY <1>1, <1>2, <1>3, <2>2
  <2> QED BY <2>1, <2>2
<1> QED
  BY <1>1, <1>2, <1>3, <1>5, <1>6

LEMMA RelayStep == RelayInv /\ [Next]_vars => RelayInv'
<1> SUFFICES ASSUME RelayInv, [Next]_vars PROVE RelayInv'
  OBVIOUS
<1>t. TypeOK' /\ Flying'
  BY TypeStep, FlyingStep DEF RelayInv
<1>l. \A d \in Chunks : Links[d] \subseteq Titles
  BY ArticleAssumption
<1> USE DEF partVars, asmVars, history
\* What a chunk is told when it begins.
<1>a. ASSUME NEW c \in Chunks, Ask(c), phase = "translate"
      PROVE  /\ earlier'[c] = DoneChunks /\ \A d \in Chunks \ {c} : earlier'[d] = earlier[d]
             /\ \A t \in Links[c] : told'[c][t] = established[t]
             /\ \A d \in Chunks \ {c} : told'[d] = told[d]
  BY <1>a, FactsOfIs DEF Ask, RelayInv, TypeOK, DoneChunks
<1>1. ASSUME NEW c \in Chunks, Hit(c) PROVE RelayInv'
  <2> DEFINE x == cache[KeyFor(c)]
  <2>1. x \in Texts(c)
    BY <1>1, FactsOfIs, KeyIs, ModelIs DEF Hit, KeyFor, RelayInv, TypeOK
  <2>2. /\ phase = "translate" /\ phase' = phase /\ status[c] = "PENDING"
        /\ status' = [status EXCEPT ![c] = "CACHED"] /\ text' = Put(text, c, x)
        /\ Record(c, x) /\ Ask(c)
    BY <1>1 DEF Hit, CanBegin
  <2>3. "CACHED" \in Done
    BY DEF Done
  <2> HIDE DEF x
  <2>4. /\ DoneChunks' = DoneChunks \cup {c}
        /\ DoneIsRecorded' /\ EstablishedIsAccepted'
        /\ \A d \in DoneChunks : d # c /\ text'[d] = text[d]
        /\ \A t \in Titles : established[t] # NoRendering => established'[t] = established[t]
    BY <2>1, <2>2, <2>3, FinishRelays
  <2>5. /\ earlier'[c] = DoneChunks /\ \A d \in Chunks \ {c} : earlier'[d] = earlier[d]
        /\ \A t \in Links[c] : told'[c][t] = established[t]
        /\ \A d \in Chunks \ {c} : told'[d] = told[d]
    BY <2>2, <1>a
  <2>6. FactsStayTrue'
    BY <2>4, <2>5, <1>l DEF RelayInv, FactsStayTrue
  <2>7. \A d \in Chunks : earlier'[d] \subseteq DoneChunks
    BY <2>2, <2>5 DEF RelayInv
  <2>8. LaterChunksAreTold'
    BY <2>2, <2>4, <2>5, <2>7 DEF RelayInv, LaterChunksAreTold, DoneIsRecorded
  <2> QED BY <1>t, <2>4, <2>6, <2>7, <2>8 DEF RelayInv
<1>2. ASSUME NEW c \in Chunks, Miss(c) PROVE RelayInv'
  <2>1. phase = "translate" /\ Ask(c) /\ UNCHANGED <<phase, status, text, established>>
    BY <1>2 DEF Miss, CanBegin
  <2>2. /\ earlier'[c] = DoneChunks /\ \A d \in Chunks \ {c} : earlier'[d] = earlier[d]
        /\ \A t \in Links[c] : told'[c][t] = established[t]
        /\ \A d \in Chunks \ {c} : told'[d] = told[d]
    BY <2>1, <1>a
  <2>3. DoneChunks' = DoneChunks /\ DoneIsRecorded' /\ EstablishedIsAccepted'
    BY <2>1 DEF RelayInv, DoneChunks, DoneIsRecorded, EstablishedIsAccepted
  <2>4. FactsStayTrue'
    BY <2>1, <2>2 DEF RelayInv, FactsStayTrue
  <2>5. \A d \in Chunks : earlier'[d] \subseteq DoneChunks
    BY <2>1, <2>2 DEF RelayInv
  <2>6. LaterChunksAreTold'
    BY <2>1, <2>2, <2>5 DEF RelayInv, LaterChunksAreTold, DoneIsRecorded
  <2> QED BY <1>t, <2>3, <2>4, <2>5, <2>6 DEF RelayInv
<1>3. ASSUME NEW c \in Chunks, Reply(c) PROVE RelayInv'
  <2> PICK x \in Texts(c) : text' = Put(text, c, x) /\ (Accept(c, x) \/ Refuse(c, x))
    BY <1>3 DEF Reply
  <2>1. /\ phase = "translate" /\ phase' = phase /\ status[c] = "PENDING"
        /\ UNCHANGED <<told, earlier>>
    BY <1>3 DEF Reply, RelayInv, Flying
  <2>2. CASE Accept(c, x)
    <3>1. PICK s \in Done : status' = [status EXCEPT ![c] = s]
      BY <2>2 DEF Accept, Done
    <3>2. /\ DoneChunks' = DoneChunks \cup {c}
          /\ DoneIsRecorded' /\ EstablishedIsAccepted'
          /\ \A d \in DoneChunks : d # c /\ text'[d] = text[d]
          /\ \A t \in Titles : established[t] # NoRendering => established'[t] = established[t]
      BY <2>1, <2>2, <3>1, FinishRelays DEF Accept
    <3>3. FactsStayTrue'
      BY <2>1, <3>2, <1>l DEF RelayInv, FactsStayTrue
    <3>4. LaterChunksAreTold'
      BY <2>1, <3>2 DEF RelayInv, LaterChunksAreTold
    <3> QED BY <1>t, <2>1, <3>2, <3>3, <3>4 DEF RelayInv
  <2>3. CASE Refuse(c, x)
    <3>1. UNCHANGED established /\ status' = [status EXCEPT ![c] = "FAILED"]
      BY <2>3 DEF Refuse
    <3>2. DoneChunks' = DoneChunks /\ c \notin DoneChunks
      BY <2>1, <3>1 DEF DoneChunks, RelayInv, TypeOK, Done
    <3>3. \A d \in DoneChunks : d \in DOMAIN text' /\ text'[d] = text[d]
      BY <2>1, <3>2 DEF RelayInv, DoneIsRecorded, Put
    <3>4. DoneIsRecorded'
      BY <2>1, <3>1, <3>2, <3>3 DEF RelayInv, DoneIsRecorded
    <3>5. EstablishedIsAccepted'
      <4> SUFFICES ASSUME NEW t \in Titles, established[t] # NoRendering
                   PROVE  \E d \in DoneChunks' : t \in Links[d] /\ text'[d].ill[t] = established'[t]
        BY <3>1 DEF EstablishedIsAccepted, DoneChunks
      <4> PICK d \in DoneChunks : t \in Links[d] /\ text[d].ill[t] = established[t]
        BY <2>1 DEF RelayInv, EstablishedIsAccepted, DoneChunks
      <4> QED BY <3>1, <3>2, <3>3
    <3>6. FactsStayTrue'
      BY <2>1, <3>1 DEF RelayInv, FactsStayTrue
    <3>7. LaterChunksAreTold'
      BY <2>1, <3>3 DEF RelayInv, LaterChunksAreTold
    <3> QED BY <1>t, <2>1, <3>2, <3>4, <3>5, <3>6, <3>7 DEF RelayInv
  <2> QED BY <2>2, <2>3
<1>4. ASSUME NEW c \in Chunks, Repair(c) \/ CallFails(c) PROVE RelayInv'
  <2>1. /\ phase = "translate" /\ status[c] = "PENDING"
        /\ UNCHANGED <<phase, text, told, earlier, established>>
    BY <1>4 DEF Repair, CallFails, RelayInv, Flying
  <2>2. \A d \in Chunks : status'[d] = status[d] \/ (d = c /\ status'[d] = "FAILED")
    BY <1>4 DEF Repair, CallFails, RelayInv, TypeOK
  <2>3. DoneChunks' = DoneChunks
    BY <2>1, <2>2 DEF DoneChunks, Done
  <2>4. DoneIsRecorded' /\ EstablishedIsAccepted'
    BY <2>1, <2>3 DEF RelayInv, DoneIsRecorded, EstablishedIsAccepted, DoneChunks
  <2>5. FactsStayTrue' /\ LaterChunksAreTold'
    BY <2>1 DEF RelayInv, FactsStayTrue, LaterChunksAreTold
  <2> QED BY <1>t, <2>1, <2>3, <2>4, <2>5 DEF RelayInv
<1>5. CASE EndChunks \/ TimeOut \/ Validate \/ Review \/ \E c \in Chunks : Patch(c) \/ PatchFails(c)
  <2>1. phase' # "translate" /\ UNCHANGED <<told, established>>
    BY <1>5 DEF EndChunks, TimeOut, Validate, Review, Patch, PatchFails, NextToPatch
  <2>2. FactsStayTrue'
    BY <2>1 DEF RelayInv, FactsStayTrue
  <2> QED
    BY <1>t, <2>1, <2>2 DEF RelayInv, DoneIsRecorded, LaterChunksAreTold, EstablishedIsAccepted
<1>6. CASE Rerun
  <2>1. DoneChunks' = {}
    BY <1>6 DEF Rerun, DoneChunks, AllPending, Done
  <2>2. /\ \A c \in Chunks : earlier'[c] = {} /\ \A t \in Links[c] : told'[c][t] = NoRendering
        /\ \A t \in Titles : established'[t] = NoRendering
    BY <1>6 DEF Rerun, ToldNothing
  <2> QED
    BY <1>t, <2>1, <2>2
    DEF RelayInv, DoneIsRecorded, LaterChunksAreTold, EstablishedIsAccepted, FactsStayTrue
<1>7. CASE UNCHANGED vars
  <2>1. DoneChunks' = DoneChunks
    BY <1>7 DEF vars, DoneChunks
  <2> QED
    BY <1>7, <1>t, <2>1
    DEF vars, RelayInv, DoneIsRecorded, LaterChunksAreTold, EstablishedIsAccepted, FactsStayTrue
<1> QED
  BY <1>1, <1>2, <1>3, <1>4, <1>5, <1>6, <1>7 DEF Next, ChunkStep, ArticleStep

\* VerifiedFacts: "every later chunk is told", however its earlier neighbours
\* came to be done.
THEOREM LaterChunksTold == Spec => []LaterChunksAreTold
<1>1. RelayInv => LaterChunksAreTold
  BY DEF RelayInv
<1> QED BY <1>1, RelayInit, RelayStep, PTL DEF Spec

\* No two chunks of a run are told different renderings of a title.
THEOREM FactsAreKept == Spec => []FactsStayTrue
<1>1. RelayInv => FactsStayTrue
  BY DEF RelayInv
<1> QED BY <1>1, RelayInit, RelayStep, PTL DEF Spec

\* Every established rendering is that of a text the article uses.
THEOREM EstablishedByAccepted == Spec => []EstablishedIsAccepted
<1>1. RelayInv => EstablishedIsAccepted
  BY DEF RelayInv
<1> QED BY <1>1, RelayInit, RelayStep, PTL DEF Spec

-----------------------------------------------------------------------------
\* A step that touches another chunk only leaves what is stored for this one.
LEMMA StoredStays ==
  ASSUME NEW d \in Chunks, Stored(d), status'[d] = status[d], told'[d] = told[d],
         d \in DOMAIN text => d \in DOMAIN text' /\ text'[d] = text[d],
         KeyUsed(d) \in DOMAIN cache =>
           KeyUsed(d) \in DOMAIN cache' /\ cache'[KeyUsed(d)] = cache[KeyUsed(d)]
  PROVE  Stored(d)'
BY DEF Stored, KeyUsed

LEMMA PersistStep == PersistInv /\ [Next]_vars => PersistInv'
<1> SUFFICES ASSUME PersistInv, [Next]_vars PROVE PersistInv'
  OBVIOUS
<1>t. TypeOK' /\ Flying'
  BY TypeStep, FlyingStep DEF PersistInv
<1> SUFFICES ASSUME phase' \in {"translate", "failed"}, NEW d \in Chunks PROVE Stored(d)'
  BY <1>t DEF PersistInv
<1>k. phase \in {"translate", "failed"} => Stored(d)
  BY DEF PersistInv
<1> USE DEF partVars, asmVars, history
<1>1. ASSUME NEW c \in Chunks, Hit(c) PROVE Stored(d)'
  <2>1. CASE d = c
    BY <1>1, <2>1 DEF Hit, PersistInv, TypeOK, Stored
  <2>2. CASE d # c
    <3>1. status'[d] = status[d] /\ told'[d] = told[d] /\ UNCHANGED cache /\ phase = "translate"
      BY <1>1, <2>2 DEF Hit, CanBegin, Ask, PersistInv, TypeOK
    <3>2. d \in DOMAIN text => d \in DOMAIN text' /\ text'[d] = text[d]
      BY <1>1, <2>2 DEF Hit, Put
    <3> QED BY <1>k, <3>1, <3>2, StoredStays
  <2> QED BY <2>1, <2>2
<1>2. ASSUME NEW c \in Chunks, Miss(c) PROVE Stored(d)'
  <2>1. CASE d = c
    BY <1>2, <2>1 DEF Miss, CanBegin, Stored
  <2>2. CASE d # c
    <3>1. told'[d] = told[d] /\ UNCHANGED <<status, text, cache>> /\ phase = "translate"
      BY <1>2, <2>2 DEF Miss, CanBegin, Ask, PersistInv, TypeOK
    <3> QED BY <1>k, <3>1, StoredStays
  <2> QED BY <2>1, <2>2
<1>3. ASSUME NEW c \in Chunks, Reply(c) PROVE Stored(d)'
  <2> PICK x \in Texts(c) : text' = Put(text, c, x) /\ (Accept(c, x) \/ Refuse(c, x))
    BY <1>3 DEF Reply
  <2>1. UNCHANGED told /\ phase = "translate" /\ \A e \in Chunks : told[e] \in Facts(e)
    BY <1>3 DEF Reply, PersistInv, Flying, TypeOK
  <2>2. CASE d = c /\ Accept(c, x)
    <3>1. cache' = Put(cache, KeyUsed(c), x)
      BY <2>2 DEF Accept, KeyUsed
    <3>2. text'[c] = x /\ c \in DOMAIN text'
      BY DEF Put
    <3>3. cache'[KeyUsed(c)] = x /\ KeyUsed(c) \in DOMAIN cache'
      BY <3>1 DEF Put
    <3>4. KeyUsed(c)' = KeyUsed(c)
      BY <2>1 DEF KeyUsed
    <3> QED BY <2>2, <3>2, <3>3, <3>4 DEF Stored
  <2>3. CASE d = c /\ Refuse(c, x)
    BY <2>3 DEF Refuse, Stored, PersistInv, TypeOK
  <2>4. CASE d # c
    <3>1. status'[d] = status[d]
      BY <2>4 DEF Accept, Refuse, PersistInv, TypeOK
    <3>2. d \in DOMAIN text => d \in DOMAIN text' /\ text'[d] = text[d]
      BY <2>4 DEF Put
    <3>3. KeyUsed(d) # KeyUsed(c)
      BY <2>1, <2>4, KeyIs, ModelIs DEF KeyUsed
    <3>4. cache' = Put(cache, KeyUsed(c), x) \/ UNCHANGED cache
      BY DEF Accept, Refuse, KeyUsed
    <3>5. KeyUsed(d) \in DOMAIN cache =>
            KeyUsed(d) \in DOMAIN cache' /\ cache'[KeyUsed(d)] = cache[KeyUsed(d)]
      BY <3>3, <3>4 DEF Put
    <3> QED BY <1>k, <2>1, <3>1, <3>2, <3>5, StoredStays
  <2> QED BY <2>2, <2>3, <2>4
<1>4. ASSUME NEW c \in Chunks, Repair(c) \/ CallFails(c) PROVE Stored(d)'
  <2>1. UNCHANGED <<told, text, cache>> /\ phase = "translate"
    BY <1>4 DEF Repair, CallFails, PersistInv, Flying
  <2>2. status'[d] = status[d] \/ status'[d] = "FAILED"
    BY <1>4 DEF Repair, CallFails, PersistInv, TypeOK
  <2> QED BY <1>k, <2>1, <2>2, StoredStays DEF Stored
<1>5. CASE EndChunks
  BY <1>5, <1>k, StoredStays DEF EndChunks
<1>6. CASE TimeOut
  <2>1. UNCHANGED <<told, text, cache>> /\ phase = "translate"
    BY <1>6 DEF TimeOut
  <2>2. status'[d] = status[d] \/ status'[d] = "FAILED"
    BY <1>6 DEF TimeOut
  <2> QED BY <1>k, <2>1, <2>2, StoredStays DEF Stored
<1>7. CASE Validate \/ Review \/ \E c \in Chunks : Patch(c) \/ PatchFails(c)
  BY <1>7 DEF Validate, Review, Patch, PatchFails, NextToPatch
<1>8. CASE Rerun
  BY <1>8 DEF Rerun, AllPending, Stored
<1>9. CASE UNCHANGED vars
  BY <1>9, <1>k, StoredStays DEF vars
<1> QED
  BY <1>1, <1>2, <1>3, <1>4, <1>5, <1>6, <1>7, <1>8, <1>9 DEF Next, ChunkStep, ArticleStep

\* A translation that was paid for is in the memory, under the facts it was
\* made with, from the step that accepts it: no kill and no failure of another
\* chunk loses it.
THEOREM PaidIsPersisted == Spec => []ProgressPersisted
<1>1. Init => PersistInv
  BY TypeInit DEF Init, PersistInv, Flying, Stored, AllPending
<1>2. PersistInv => ProgressPersisted
  BY DEF PersistInv, Stored, KeyUsed, ProgressPersisted
<1> QED BY <1>1, <1>2, PersistStep, PTL DEF Spec

-----------------------------------------------------------------------------
ValidInv == TypeOK /\ TranslationsCachedValid

LEMMA ValidStep == ValidInv /\ [Next]_vars => ValidInv'
<1> SUFFICES ASSUME ValidInv, [Next]_vars PROVE ValidInv'
  OBVIOUS
<1>t. TypeOK'
  BY TypeStep DEF ValidInv
<1> USE DEF partVars, asmVars, history, ValidInv, TranslationsCachedValid
<1>1. ASSUME NEW c \in Chunks, Reply(c) PROVE ValidInv'
  <2> PICK x \in Texts(c) : Accept(c, x) \/ Refuse(c, x)
    BY <1>1 DEF Reply
  <2>1. CASE Accept(c, x)
    <3> PICK k : /\ x.defect # "chunk" /\ cache' = Put(cache, k, x)
                 /\ patched' = patched \ {k}
      BY <2>1 DEF Accept
    <3> QED BY <1>t DEF Put
  <2>2. CASE Refuse(c, x)
    BY <1>t, <2>2 DEF Refuse
  <2> QED BY <2>1, <2>2
<1>2. ASSUME NEW c \in Chunks, Patch(c) PROVE ValidInv'
  <2> PICK x, k : cache' = Put(cache, k, x) /\ patched' = patched \cup {k}
    BY <1>2 DEF Patch
  <2> QED BY <1>t DEF Put
<1>3. ASSUME NEW c \in Chunks, Hit(c) \/ Miss(c) \/ Repair(c) \/ CallFails(c) \/ PatchFails(c)
      PROVE  ValidInv'
  BY <1>3, <1>t DEF Hit, Miss, Repair, CallFails, PatchFails
<1>4. CASE EndChunks \/ TimeOut \/ Validate \/ Review \/ Rerun \/ UNCHANGED vars
  BY <1>4, <1>t DEF EndChunks, TimeOut, Validate, Review, Rerun, vars
<1> QED
  BY <1>1, <1>2, <1>3, <1>4 DEF Next, ChunkStep, ArticleStep

\* test_translator.py, a failed translation is not cached: what translate_chunk
\* stored passed the chunk's validation.
THEOREM StoredIsValid == Spec => []TranslationsCachedValid
<1>1. Init => ValidInv
  BY TypeInit DEF Init, ValidInv, TranslationsCachedValid
<1>2. ValidInv => TranslationsCachedValid
  BY DEF ValidInv
<1> QED BY <1>1, <1>2, ValidStep, PTL DEF Spec

-----------------------------------------------------------------------------
(***************************************************************************)
(* Replay.  As long as the chunks were done one after the other and none   *)
(* was lost or patched, the memory has one text per chunk, of the first    *)
(* chunks of the article, and each key has the renderings of the texts of  *)
(* the chunks before it.  A later run is told the same, chunk by chunk.    *)
(***************************************************************************)

Before(c) == {d \in Chunks : d < c}

\* The texts in M of the chunks of S render t as r, the first of them that
\* renders it.
FirstRendering(M, S, t, r) ==
  LET stored == {k \in DOMAIN M : k.chunk \in S /\ t \in Links[k.chunk]}
  IN \/ r = NoRendering /\ \A k \in stored : M[k].ill[t] = NoRendering
     \/ \E k \in stored : /\ r # NoRendering /\ M[k].ill[t] = r
                          /\ \A j \in stored : j.chunk < k.chunk => M[j].ill[t] = NoRendering

Remembered ==
  /\ \A k, j \in DOMAIN cache : k.chunk = j.chunk => k = j
  /\ \A k \in DOMAIN cache :
       /\ k.model = EffectiveModel(k.chunk)
       /\ \A d \in Before(k.chunk) : \E j \in DOMAIN cache : j.chunk = d
       /\ \A t \in Links[k.chunk] : FirstRendering(cache, Before(k.chunk), t, k.facts[t])
  /\ \A c \in paid : \E k \in DOMAIN cache : k.chunk = c

InOrder ==
  /\ \A c \in Chunks : status[c] # "FAILED"
  /\ \A c \in DoneChunks : /\ Before(c) \subseteq DoneChunks
                           /\ \E k \in DOMAIN cache : k.chunk = c
  /\ \A t \in Titles : FirstRendering(cache, DoneChunks, t, established[t])
  /\ \A c, d \in inFlight : c = d
  /\ \A c \in inFlight : /\ DoneChunks = Before(c) /\ told[c] = FactsOf(c)
                         /\ \A k \in DOMAIN cache : k.chunk # c

\* A chunk without links has one key only.
PlainIsStored ==
  \A c \in paid : Links[c] = {} =>
    \E k \in DOMAIN cache : k.model = EffectiveModel(c) /\ k.chunk = c

ReplayInv ==
  /\ TypeOK /\ Flying /\ PlainIsStored /\ ReplayIsFree
  /\ smooth => Remembered
  /\ smooth /\ phase = "translate" => InOrder

LEMMA SameFacts ==
  ASSUME NEW c \in Chunks, NEW f \in Facts(c), NEW g \in Facts(c),
         \A t \in Links[c] : f[t] = g[t]
  PROVE  f = g
BY DEF Facts

LEMMA FirstIsOne ==
  ASSUME NEW M, DOMAIN M \subseteq Keys, \A k, j \in DOMAIN M : k.chunk = j.chunk => k = j,
         NEW S, NEW t, NEW r, NEW q,
         FirstRendering(M, S, t, r), FirstRendering(M, S, t, q)
  PROVE  r = q
<1>1. \A k \in DOMAIN M : k.chunk \in Nat
  BY KeyParts, ArticleAssumption DEF Chunks
<1> DEFINE stored == {k \in DOMAIN M : k.chunk \in S /\ t \in Links[k.chunk]}
<1>2. CASE \A k \in stored : M[k].ill[t] = NoRendering
  BY <1>2 DEF FirstRendering
<1>3. CASE \E k \in stored : M[k].ill[t] # NoRendering
  <2> PICK k \in stored : /\ r # NoRendering /\ M[k].ill[t] = r
                          /\ \A i \in stored : i.chunk < k.chunk => M[i].ill[t] = NoRendering
    BY <1>3 DEF FirstRendering
  <2> PICK j \in stored : /\ q # NoRendering /\ M[j].ill[t] = q
                          /\ \A i \in stored : i.chunk < j.chunk => M[i].ill[t] = NoRendering
    BY <1>3 DEF FirstRendering
  <2>1. ~(k.chunk < j.chunk) /\ ~(j.chunk < k.chunk)
    OBVIOUS
  <2>2. k.chunk = j.chunk
    BY <1>1, <2>1
  <2> QED BY <2>2
<1> QED BY <1>2, <1>3

LEMMA FirstIsSame ==
  ASSUME NEW S, NEW t, NEW r, FirstRendering(cache, S, t, r),
         \A k : k \in DOMAIN cache /\ k.chunk \in S <=> k \in DOMAIN cache' /\ k.chunk \in S,
         \A k \in DOMAIN cache : k.chunk \in S => cache'[k] = cache[k]
  PROVE  FirstRendering(cache', S, t, r)
<1> DEFINE stored == {k \in DOMAIN cache : k.chunk \in S /\ t \in Links[k.chunk]}
<1>1. stored = {k \in DOMAIN cache' : k.chunk \in S /\ t \in Links[k.chunk]}
  OBVIOUS
<1>2. \A k \in stored : cache'[k] = cache[k]
  OBVIOUS
<1> HIDE DEF stored
<1>3. \/ r = NoRendering /\ \A k \in stored : cache[k].ill[t] = NoRendering
      \/ \E k \in stored : /\ r # NoRendering /\ cache[k].ill[t] = r
                           /\ \A j \in stored : j.chunk < k.chunk => cache[j].ill[t] = NoRendering
  BY DEF FirstRendering, stored
<1>4. \/ r = NoRendering /\ \A k \in stored : cache'[k].ill[t] = NoRendering
      \/ \E k \in stored : /\ r # NoRendering /\ cache'[k].ill[t] = r
                           /\ \A j \in stored : j.chunk < k.chunk => cache'[j].ill[t] = NoRendering
  BY <1>2, <1>3
<1> QED BY <1>1, <1>4 DEF FirstRendering

\* The text of the next chunk, stored under k, decides what is still open.
LEMMA FirstExtends ==
  ASSUME NEW c \in Chunks, NEW k \in DOMAIN cache', NEW t, NEW r,
         k.chunk = c, \A j \in DOMAIN cache' : j.chunk = c => j = k,
         FirstRendering(cache, Before(c), t, r),
         \A j : j \in DOMAIN cache /\ j.chunk \in Before(c) <=> j \in DOMAIN cache' /\ j.chunk \in Before(c),
         \A j \in DOMAIN cache : j.chunk \in Before(c) => cache'[j] = cache[j]
  PROVE  FirstRendering(cache', Before(c) \cup {c}, t,
                        IF r = NoRendering /\ t \in Links[c] THEN cache'[k].ill[t] ELSE r)
<1>1. FirstRendering(cache', Before(c), t, r)
  BY FirstIsSame
<1> DEFINE old == {j \in DOMAIN cache' : j.chunk \in Before(c) /\ t \in Links[j.chunk]}
           new == {j \in DOMAIN cache' : j.chunk \in Before(c) \cup {c} /\ t \in Links[j.chunk]}
           q   == IF r = NoRendering /\ t \in Links[c] THEN cache'[k].ill[t] ELSE r
<1>2. \/ r = NoRendering /\ \A i \in old : cache'[i].ill[t] = NoRendering
      \/ \E i \in old : /\ r # NoRendering /\ cache'[i].ill[t] = r
                        /\ \A j \in old : j.chunk < i.chunk => cache'[j].ill[t] = NoRendering
  BY <1>1 DEF FirstRendering
<1>3. new = IF t \in Links[c] THEN old \cup {k} ELSE old
  OBVIOUS
<1>4. \A i \in old : i.chunk < c /\ i.chunk \in Nat /\ c \in Nat /\ ~(c < i.chunk) /\ ~(c < c)
  BY ArticleAssumption DEF Before, Chunks
<1>5. ~(c < c)
  BY ArticleAssumption DEF Chunks
<1> SUFFICES \/ q = NoRendering /\ \A i \in new : cache'[i].ill[t] = NoRendering
             \/ \E i \in new : /\ q # NoRendering /\ cache'[i].ill[t] = q
                               /\ \A j \in new : j.chunk < i.chunk => cache'[j].ill[t] = NoRendering
  BY DEF FirstRendering
<1> HIDE DEF old, new
<1>6. CASE t \notin Links[c]
  BY <1>2, <1>3, <1>6
<1>7. CASE t \in Links[c] /\ r # NoRendering
  <2> PICK i \in old : /\ cache'[i].ill[t] = r
                       /\ \A j \in old : j.chunk < i.chunk => cache'[j].ill[t] = NoRendering
    BY <1>2, <1>7
  <2>1. i \in new /\ ~(k.chunk < i.chunk)
    BY <1>3, <1>4, <1>7
  <2>2. \A j \in new : j.chunk < i.chunk => cache'[j].ill[t] = NoRendering
    BY <1>3, <1>7, <2>1
  <2> QED BY <1>7, <2>1, <2>2
<1>8. CASE t \in Links[c] /\ r = NoRendering
  <2>1. \A i \in old : cache'[i].ill[t] = NoRendering
    BY <1>2, <1>8
  <2>2. k \in new /\ \A j \in new : j.chunk < k.chunk => cache'[j].ill[t] = NoRendering
    BY <1>3, <1>5, <1>8, <2>1
  <2>3. CASE cache'[k].ill[t] = NoRendering
    BY <1>3, <1>8, <2>1, <2>3
  <2>4. CASE cache'[k].ill[t] # NoRendering
    BY <1>8, <2>2, <2>4
  <2> QED BY <2>3, <2>4
<1> QED BY <1>6, <1>7, <1>8

\* Where the chunks are done one after the other, the next one is told what the
\* memory's key for it says, if there is one.
LEMMA BeginsInOrder ==
  ASSUME ReplayInv, smooth, inFlight = {}, NEW c \in Chunks, CanBegin(c)
  PROVE  /\ DoneChunks = Before(c)
         /\ \A k \in DOMAIN cache : k.chunk = c => k = KeyFor(c)
<1>1. InOrder /\ Remembered /\ DOMAIN cache \subseteq Keys
  BY DEF ReplayInv, CanBegin, TypeOK
<1>2. \A d \in Before(c) : d \in DoneChunks
  BY <1>1 DEF CanBegin, Before, InOrder, DoneChunks, ReplayInv, TypeOK
<1>3. \A d \in DoneChunks : d \in Before(c)
  <2> SUFFICES ASSUME NEW d \in DoneChunks, d \notin Before(c) PROVE FALSE
    OBVIOUS
  <2>1. d \in Chunks /\ d # c
    BY DEF CanBegin, DoneChunks, Done
  <2>2. c \in Before(d)
    BY <2>1, ArticleAssumption DEF Before, Chunks
  <2> QED BY <1>1, <2>2 DEF InOrder, CanBegin, DoneChunks, Done
<1>4. DoneChunks = Before(c)
  BY <1>2, <1>3
<1>5. ASSUME NEW k \in DOMAIN cache, k.chunk = c PROVE k = KeyFor(c)
  <2>1. /\ k.facts \in Facts(c) /\ FactsOf(c) \in Facts(c)
        /\ k = Key(k.model, c, k.facts) /\ k.model = EffectiveModel(c)
    BY <1>1, <1>5, KeyParts, FactsOfIs DEF ReplayInv, Remembered
  <2>2. ASSUME NEW t \in Links[c] PROVE k.facts[t] = FactsOf(c)[t]
    <3>1. t \in Titles
      BY ArticleAssumption
    <3>2. FirstRendering(cache, DoneChunks, t, established[t])
      BY <1>1, <3>1 DEF InOrder
    <3>3. FirstRendering(cache, DoneChunks, t, k.facts[t])
      BY <1>1, <1>4, <1>5 DEF Remembered
    <3>4. k.facts[t] = established[t]
      BY <1>1, <3>2, <3>3, FirstIsOne DEF Remembered
    <3> QED BY <3>4, FactsOfIs DEF ReplayInv
  <2>3. k.facts = FactsOf(c)
    BY <2>1, <2>2, SameFacts
  <2> QED BY <2>1, <2>3 DEF KeyFor
<1> QED BY <1>4, <1>5

\* Being done keeps the order: the text is the memory's only one for c.
LEMMA FinishInOrder ==
  ASSUME ReplayInv, smooth, phase = "translate",
         NEW c \in Chunks, DoneChunks = Before(c), NEW x \in Texts(c), NEW s \in Done, NEW k \in DOMAIN cache',
         status[c] = "PENDING", status' = [status EXCEPT ![c] = s], Record(c, x),
         inFlight' = {}, k.chunk = c, cache'[k] = x,
         \A j \in DOMAIN cache' : j.chunk = c => j = k,
         DOMAIN cache' \subseteq DOMAIN cache \cup {k},
         \A j \in DOMAIN cache : j \in DOMAIN cache' /\ (j.chunk # c => cache'[j] = cache[j])
  PROVE  InOrder'
<1>1. InOrder
  BY DEF ReplayInv
<1>2. DoneChunks' = DoneChunks \cup {c}
  BY DEF DoneChunks, ReplayInv, TypeOK, Done
<1>3. \A d \in Chunks : status'[d] # "FAILED"
  BY <1>1 DEF InOrder, ReplayInv, TypeOK, Done
<1>4. \A d \in DoneChunks' : Before(d) \subseteq DoneChunks' /\ \E j \in DOMAIN cache' : j.chunk = d
  BY <1>1, <1>2 DEF InOrder
<1>5. ASSUME NEW t \in Titles PROVE FirstRendering(cache', DoneChunks', t, established'[t])
  <2>1. established'[t] = IF established[t] = NoRendering /\ t \in Links[c]
                          THEN cache'[k].ill[t] ELSE established[t]
    BY DEF Record
  <2>2. FirstRendering(cache, Before(c), t, established[t])
    BY <1>1 DEF InOrder
  <2>3. c \notin Before(c)
    BY ArticleAssumption DEF Before, Chunks
  <2>4. \A j : j \in DOMAIN cache /\ j.chunk \in Before(c)
                 <=> j \in DOMAIN cache' /\ j.chunk \in Before(c)
    BY <2>3
  <2>5. \A j \in DOMAIN cache : j.chunk \in Before(c) => cache'[j] = cache[j]
    BY <2>3
  <2>6. FirstRendering(cache', Before(c) \cup {c}, t,
                       IF established[t] = NoRendering /\ t \in Links[c]
                       THEN cache'[k].ill[t] ELSE established[t])
    BY <2>2, <2>4, <2>5, FirstExtends
  <2>7. FirstRendering(cache', DoneChunks', t, established'[t])
    BY <2>1, <2>6, <1>2
  <2> QED BY <2>7
<1> QED
  BY <1>2, <1>3, <1>4, <1>5 DEF InOrder

LEMMA ReplayStep == ReplayInv /\ [Next]_vars => ReplayInv'
<1> SUFFICES ASSUME ReplayInv, [Next]_vars PROVE ReplayInv'
  OBVIOUS
<1>t. TypeOK' /\ Flying'
  BY TypeStep, FlyingStep DEF ReplayInv
<1> USE DEF partVars, asmVars, history
\* What a step that writes neither the memory nor `paid` keeps.
<1>k. ASSUME UNCHANGED <<cache, paid>>, smooth' => smooth
      PROVE  PlainIsStored' /\ (smooth' => Remembered')
  BY <1>k DEF ReplayInv, PlainIsStored, Remembered, FirstRendering
<1>1. ASSUME NEW c \in Chunks, Hit(c) PROVE ReplayInv'
  <2> DEFINE k == KeyFor(c)
  <2>1. /\ k \in DOMAIN cache /\ k.chunk = c /\ cache[k] \in Texts(c)
    BY <1>1, FactsOfIs, KeyIs, ModelIs DEF Hit, KeyFor, ReplayInv, TypeOK
  <2>2. /\ UNCHANGED <<cache, paid, inFlight, phase>> /\ smooth' = (smooth /\ inFlight = {})
        /\ CanBegin(c) /\ Record(c, cache[k]) /\ status' = [status EXCEPT ![c] = "CACHED"]
    BY <1>1 DEF Hit
  <2>3. "CACHED" \in Done /\ phase = "translate" /\ status[c] = "PENDING"
    BY <2>2 DEF Done, CanBegin
  <2>4. ASSUME smooth' PROVE InOrder'
    <3>1. smooth /\ inFlight = {} /\ inFlight' = {}
      BY <2>2, <2>4
    <3>2. DoneChunks = Before(c)
      BY <2>2, <3>1, BeginsInOrder
    <3>3. \A j \in DOMAIN cache : j.chunk = c => j = k
      BY <2>2, <3>1, BeginsInOrder
    <3> DEFINE x == cache[k]
    <3>4. /\ k \in DOMAIN cache' /\ cache'[k] = x /\ Record(c, x) /\ x \in Texts(c)
          /\ k.chunk = c /\ \A j \in DOMAIN cache' : j.chunk = c => j = k
          /\ DOMAIN cache' \subseteq DOMAIN cache \cup {k}
          /\ \A j \in DOMAIN cache : j \in DOMAIN cache' /\ (j.chunk # c => cache'[j] = cache[j])
      BY <2>1, <2>2, <3>3
    <3> DEFINE s == "CACHED"
    <3>5. /\ s \in Done /\ status' = [status EXCEPT ![c] = s]
          /\ phase = "translate" /\ status[c] = "PENDING" /\ smooth /\ inFlight' = {}
      BY <2>2, <2>3, <3>1
    <3> HIDE DEF k, x, s
    <3> QED BY <3>2, <3>4, <3>5, FinishInOrder
  <2>5. ReplayIsFree'
    BY <2>2 DEF ReplayInv, ReplayIsFree
  <2> QED BY <1>t, <1>k, <2>2, <2>4, <2>5 DEF ReplayInv
<1>2. ASSUME NEW c \in Chunks, Miss(c) PROVE ReplayInv'
  <2>1. /\ UNCHANGED <<cache, paid, status, established, phase>>
        /\ smooth' = (smooth /\ inFlight = {})
        /\ CanBegin(c) /\ KeyFor(c) \notin DOMAIN cache
        /\ inFlight' = inFlight \cup {c} /\ told' = [told EXCEPT ![c] = FactsOf(c)]
    BY <1>2 DEF Miss, Ask
  <2>2. DoneChunks' = DoneChunks /\ FactsOf(c)' = FactsOf(c) /\ told'[c] = FactsOf(c)
    BY <2>1 DEF DoneChunks, FactsOf, ReplayInv, TypeOK
  <2>3. ASSUME smooth' PROVE /\ DoneChunks = Before(c)
                             /\ \A k \in DOMAIN cache : k.chunk # c
    <3>1. smooth /\ inFlight = {}
      BY <2>1, <2>3
    <3>2. DoneChunks = Before(c)
      BY <2>1, <3>1, BeginsInOrder
    <3>3. \A k \in DOMAIN cache : k.chunk = c => k = KeyFor(c)
      BY <2>1, <3>1, BeginsInOrder
    <3> QED BY <2>1, <3>2, <3>3
  <2>4. ASSUME smooth' PROVE InOrder'
    <3>1. InOrder /\ inFlight' = {c}
      BY <2>1, <2>4 DEF ReplayInv, CanBegin
    <3>2. \A t \in Titles : FirstRendering(cache, DoneChunks, t, established[t])'
      BY <2>1, <2>2, <3>1 DEF InOrder, FirstRendering
    <3> QED
      BY <2>1, <2>2, <2>3, <2>4, <3>1, <3>2 DEF InOrder
  <2>5. ReplayIsFree'
    <3> SUFFICES ASSUME c \in paid PROVE Links[c] # {} /\ ~smooth'
      BY <2>1 DEF ReplayInv, ReplayIsFree
    <3>1. ASSUME Links[c] = {} PROVE FALSE
      <4> PICK k \in DOMAIN cache : k.model = EffectiveModel(c) /\ k.chunk = c
        BY <3>1 DEF ReplayInv, PlainIsStored
      <4>1. k = Key(k.model, c, k.facts) /\ k.facts \in Facts(c)
        BY KeyParts DEF ReplayInv, TypeOK
      <4>2. k.facts = FactsOf(c)
        BY <3>1, <4>1, SameFacts, FactsOfIs DEF ReplayInv
      <4> QED BY <2>1, <4>1, <4>2 DEF KeyFor
    <3>2. ASSUME smooth' PROVE FALSE
      <4>1. \E k \in DOMAIN cache : k.chunk = c
        BY <2>1, <3>2 DEF ReplayInv, Remembered
      <4> QED BY <2>3, <3>2, <4>1
    <3> QED BY <3>1, <3>2
  <2> QED BY <1>t, <1>k, <2>1, <2>4, <2>5 DEF ReplayInv
<1>3. ASSUME NEW c \in Chunks, Reply(c) PROVE ReplayInv'
  <2> PICK x \in Texts(c) : Accept(c, x) \/ Refuse(c, x)
    BY <1>3 DEF Reply
  <2>1. /\ phase = "translate" /\ phase' = phase /\ status[c] = "PENDING"
        /\ c \in inFlight /\ inFlight' = inFlight \ {c} /\ UNCHANGED told
    BY <1>3 DEF Reply, ReplayInv, Flying
  <2>2. CASE Refuse(c, x)
    <3>1. UNCHANGED <<cache, paid>> /\ ~smooth'
      BY <2>2 DEF Refuse
    <3>2. ReplayIsFree'
      BY <2>1, <3>1 DEF ReplayInv, ReplayIsFree
    <3> QED BY <1>t, <1>k, <3>1, <3>2 DEF ReplayInv
  <2>3. CASE Accept(c, x)
    <3> DEFINE k == KeyUsed(c)
    <3>1. /\ cache' = Put(cache, k, x) /\ paid' = paid \cup {c} /\ UNCHANGED smooth
          /\ Record(c, x)
      BY <2>3 DEF Accept, KeyUsed
    <3>2. PICK s \in Done : status' = [status EXCEPT ![c] = s]
      BY <2>3 DEF Accept, Done
    <3>3. k.chunk = c /\ k.model = EffectiveModel(c) /\ k.facts = told[c]
      BY KeyIs, ModelIs DEF KeyUsed, ReplayInv, TypeOK
    <3> HIDE DEF k
    <3>4. /\ DOMAIN cache' = DOMAIN cache \cup {k} /\ cache'[k] = x
          /\ \A j \in DOMAIN cache : j # k => cache'[j] = cache[j]
      BY <3>1 DEF Put
    <3>5. PlainIsStored'
      BY <3>1, <3>3, <3>4 DEF ReplayInv, PlainIsStored
    <3>6. ReplayIsFree'
      BY <2>1, <3>1 DEF ReplayInv, ReplayIsFree
    <3>7. ASSUME smooth' PROVE Remembered' /\ InOrder'
      <4>1. Remembered /\ InOrder /\ smooth
        BY <2>1, <3>1, <3>7 DEF ReplayInv
      <4>2. /\ DoneChunks = Before(c) /\ told[c] = FactsOf(c) /\ inFlight' = {}
            /\ \A j \in DOMAIN cache : j.chunk # c
        BY <2>1, <4>1 DEF InOrder
      <4>3. /\ k \in DOMAIN cache' /\ \A j \in DOMAIN cache' : j.chunk = c => j = k
            /\ \A j \in DOMAIN cache : j \in DOMAIN cache' /\ cache'[j] = cache[j]
        BY <3>3, <3>4, <4>2
      <4>4. InOrder'
        BY <2>1, <3>1, <3>2, <3>3, <3>4, <4>1, <4>2, <4>3, FinishInOrder
      <4>5. \A d \in Chunks : ~(c \in Before(d) /\ \E j \in DOMAIN cache : j.chunk = d)
        BY <4>1, <4>2 DEF Remembered
      <4>6. ASSUME NEW S \in SUBSET Chunks, c \notin S, NEW t, NEW r,
                   FirstRendering(cache, S, t, r)
            PROVE  FirstRendering(cache', S, t, r)
        BY <3>3, <3>4, <4>3, <4>6, FirstIsSame
      <4>7. ASSUME NEW j \in DOMAIN cache
            PROVE  /\ j.model = EffectiveModel(j.chunk)
                   /\ \A d \in Before(j.chunk) : \E i \in DOMAIN cache' : i.chunk = d
                   /\ \A t \in Links[j.chunk] :
                        FirstRendering(cache', Before(j.chunk), t, j.facts[t])
        <5>1. j.chunk \in Chunks
          BY KeyParts DEF ReplayInv, TypeOK
        <5>2. c \notin Before(j.chunk) /\ Before(j.chunk) \in SUBSET Chunks
          BY <4>5, <5>1 DEF Before
        <5> QED BY <4>1, <4>3, <4>6, <5>2 DEF Remembered
      <4>8. /\ \A d \in Before(c) : \E i \in DOMAIN cache' : i.chunk = d
            /\ \A t \in Links[c] : FirstRendering(cache', Before(c), t, told[c][t])
        <5>1. c \notin Before(c) /\ Before(c) \in SUBSET Chunks
          BY ArticleAssumption DEF Before, Chunks
        <5>2. ASSUME NEW t \in Links[c]
              PROVE  FirstRendering(cache, Before(c), t, told[c][t])
          <6>1. t \in Titles
            BY ArticleAssumption
          <6>2. told[c][t] = established[t]
            BY <4>2, FactsOfIs DEF ReplayInv
          <6> QED BY <4>1, <4>2, <6>1, <6>2 DEF InOrder
        <5> QED BY <4>1, <4>2, <4>3, <4>6, <5>1, <5>2 DEF InOrder
      <4>9. Remembered'
        <5>1. \A i, j \in DOMAIN cache' : i.chunk = j.chunk => i = j
          BY <3>3, <3>4, <4>1, <4>2 DEF Remembered
        <5>2. \A j \in DOMAIN cache' :
                /\ j.model = EffectiveModel(j.chunk)
                /\ \A d \in Before(j.chunk) : \E i \in DOMAIN cache' : i.chunk = d
                /\ \A t \in Links[j.chunk] :
                     FirstRendering(cache', Before(j.chunk), t, j.facts[t])
          BY <3>3, <3>4, <4>7, <4>8
        <5>3. \A d \in paid' : \E j \in DOMAIN cache' : j.chunk = d
          BY <3>1, <3>3, <3>4, <4>1 DEF Remembered
        <5> QED BY <5>1, <5>2, <5>3 DEF Remembered
      <4> QED BY <4>4, <4>9
    <3> QED BY <1>t, <3>5, <3>6, <3>7 DEF ReplayInv
  <2> QED BY <2>2, <2>3
<1>4. ASSUME NEW c \in Chunks, Repair(c) PROVE ReplayInv'
  <2>1. UNCHANGED <<cache, paid, smooth, phase, status, told, inFlight, established>>
    BY <1>4 DEF Repair
  <2>2. InOrder => InOrder'
    BY <2>1 DEF InOrder, DoneChunks, FactsOf, FirstRendering
  <2>3. ReplayIsFree'
    BY <2>1 DEF ReplayInv, ReplayIsFree
  <2> QED BY <1>t, <1>k, <2>1, <2>2, <2>3 DEF ReplayInv
<1>5. ASSUME NEW c \in Chunks, CallFails(c) PROVE ReplayInv'
  <2>1. UNCHANGED <<cache, paid>> /\ ~smooth' /\ inFlight' \subseteq inFlight
    BY <1>5 DEF CallFails
  <2>2. ReplayIsFree'
    BY <2>1 DEF ReplayInv, ReplayIsFree
  <2> QED BY <1>t, <1>k, <2>1, <2>2 DEF ReplayInv
<1>6. CASE EndChunks \/ TimeOut \/ Validate \/ Review \/ \E c \in Chunks : PatchFails(c)
  <2>1. UNCHANGED <<cache, paid, smooth>> /\ phase' # "translate" /\ inFlight' \subseteq inFlight
    BY <1>6 DEF EndChunks, TimeOut, Validate, Review, PatchFails, NextToPatch
  <2>2. ReplayIsFree'
    BY <2>1 DEF ReplayInv, ReplayIsFree
  <2> QED BY <1>t, <1>k, <2>1, <2>2 DEF ReplayInv
<1>7. ASSUME NEW c \in Chunks, Patch(c) PROVE ReplayInv'
  <2> PICK k, x : cache' = Put(cache, k, x)
    BY <1>7 DEF Patch
  <2>1. ~smooth' /\ UNCHANGED <<paid, inFlight>> /\ phase # "translate"
    BY <1>7 DEF Patch, NextToPatch
  <2>2. DOMAIN cache \subseteq DOMAIN cache'
    BY DEF Put
  <2>3. PlainIsStored'
    BY <2>1, <2>2 DEF ReplayInv, PlainIsStored
  <2>4. ReplayIsFree'
    BY <2>1 DEF ReplayInv, Flying, ReplayIsFree
  <2> QED BY <1>t, <2>1, <2>3, <2>4 DEF ReplayInv
<1>8. CASE Rerun
  <2>1. UNCHANGED <<cache, paid, smooth>> /\ inFlight' = {}
    BY <1>8 DEF Rerun
  <2>2. DoneChunks' = {}
    BY <1>8 DEF Rerun, DoneChunks, AllPending, Done
  <2>3. InOrder'
    BY <1>8, <2>1, <2>2 DEF Rerun, AllPending, InOrder, FirstRendering
  <2>4. ReplayIsFree'
    BY <2>1 DEF ReplayIsFree
  <2> QED BY <1>t, <1>k, <2>1, <2>3, <2>4 DEF ReplayInv
<1>9. CASE UNCHANGED vars
  <2>1. UNCHANGED <<cache, paid, smooth, phase, status, told, inFlight, established>>
    BY <1>9 DEF vars
  <2>2. InOrder => InOrder'
    BY <2>1 DEF InOrder, DoneChunks, FactsOf, FirstRendering
  <2>3. ReplayIsFree'
    BY <2>1 DEF ReplayInv, ReplayIsFree
  <2> QED BY <1>t, <1>k, <2>1, <2>2, <2>3 DEF ReplayInv
<1> QED
  BY <1>1, <1>2, <1>3, <1>4, <1>5, <1>6, <1>7, <1>8, <1>9 DEF Next, ChunkStep, ArticleStep

LEMMA ReplayInit == Init => ReplayInv
<1> SUFFICES ASSUME Init PROVE ReplayInv
  OBVIOUS
<1>1. DoneChunks = {}
  BY DEF Init, DoneChunks, AllPending, Done
<1>2. Remembered /\ PlainIsStored /\ ReplayIsFree /\ Flying
  BY DEF Init, Remembered, PlainIsStored, ReplayIsFree, Flying
<1>3. InOrder
  BY <1>1 DEF Init, InOrder, AllPending, FirstRendering
<1> QED BY <1>2, <1>3, TypeInit DEF ReplayInv

\* README, "if a run stops halfway": what an earlier run paid for is not paid
\* for again by a chunk without unconfirmed titles, nor by any chunk as long as
\* the chunks were done in order and none was lost or patched, over any number
\* of runs, kills and timeouts.
THEOREM ReplayCostsNothing == Spec => []ReplayIsFree
<1>1. ReplayInv => ReplayIsFree
  BY DEF ReplayInv
<1> QED BY <1>1, ReplayInit, ReplayStep, PTL DEF Spec
=============================================================================
