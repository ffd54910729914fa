--------------------------- MODULE KopfRelais_proofs ---------------------------
(***************************************************************************)
(* Theorems about KopfRelais, for any number of AVAs, connections, calls   *)
(* and faults.  The step of every invariant is proved action by action.    *)
(***************************************************************************)
EXTENDS KopfRelais, TLAPS

\* A connection without an instance is a free one.
FreiOhneInstanz == \A k \in Verb : verb[k].von = Keine => verb[k] = Frei

\* The gateway's end of a connection in the map is not closed.
KoepfeOffen == \A k \in koepfe : verb[k].gate # "zu"

\* A connection whose hallo is under way is not known yet.
HalloSteht == \A k \in Verb : verb[k].hallo => ~verb[k].bekannt

Typ == TypeInv /\ FreiOhneInstanz /\ KoepfeOffen /\ HalloSteht

LEMMA FreiTyp == Frei \in Verbindung
  BY DEF Frei, Verbindung

LEMMA NeuTyp ==
  ASSUME NEW i \in Instanz
  PROVE  Neu(i) \in Verbindung /\ Neu(i).von # Keine
  BY KeineAssumption DEF Neu, Verbindung

LEMMA SpaeterTyp ==
  ASSUME NEW h \in Kopf
  PROVE  Spaeter(h) \in Kopf
  BY DEF Spaeter, Kopf

LEMMA OhneTyp ==
  ASSUME NEW v \in Verbindung
  PROVE  Ohne(v) \in Verbindung /\ Ohne(v) \in {v, Frei}
  BY FreiTyp DEF Ohne

\* Calls keep their type when the calls of some connections are settled.
LEMMA AbgebrochenTyp ==
  ASSUME TypeInv, NEW K
  PROVE  Abgebrochen(K) \in [Aufruf -> [stand: {"neu", "offen", "antwort", "fehler"}, bei: Verb \cup {Keine}]]
  BY DEF TypeInv, Abgebrochen

-----------------------------------------------------------------------------
LEMMA TypInit == Init => Typ
  BY FreiTyp, GrenzenAssumption
  DEF Init, Typ, TypeInv, FreiOhneInstanz, KoepfeOffen, HalloSteht, Kopf, MaxVerbindet, Frei

\* What a step may do to one connection for the invariant to survive it.
VerbGut(v) ==
    /\ v \in Verbindung
    /\ v.von = Keine => v = Frei
    /\ v.hallo => ~v.bekannt

LEMMA KopfEndeGut ==
  ASSUME NEW v, VerbGut(v), v.kopf = "auf"
  PROVE  VerbGut([v EXCEPT !.kopf = "schliesst"]) /\ v # Frei
  BY DEF VerbGut, Verbindung, Frei

LEMMA VerbAusTyp ==
  ASSUME Typ
  PROVE  /\ \A k \in Verb : VerbGut(verb[k])
         /\ DOMAIN verb = Verb
  BY DEF Typ, TypeInv, FreiOhneInstanz, HalloSteht, VerbGut

LEMMA TypAusVerb ==
  ASSUME DOMAIN verb' = Verb, verb' = [k \in Verb |-> verb'[k]],
         \A k \in Verb : VerbGut(verb'[k])
  PROVE  verb' \in [Verb -> Verbindung] /\ FreiOhneInstanz' /\ HalloSteht'
  BY DEF VerbGut, FreiOhneInstanz, HalloSteht

\* The steps that touch nothing but a client's loop.
LEMMA NurKopfTyp ==
  ASSUME Typ, NEW i \in Instanz, NEW h \in Kopf, kopf' = [kopf EXCEPT ![i] = h],
         UNCHANGED <<verb, gateway, risse, stopps>>
  PROVE  Typ'
  BY DEF Typ, TypeInv, FreiOhneInstanz, KoepfeOffen, HalloSteht, gateway

LEMMA VerbindetTyp ==
  ASSUME NEW h \in Kopf, h.verbindet < MaxVerbindet
  PROVE  Verbindet(h) \in Kopf
<1>1. h.verbindet + 1 \in 0..MaxVerbindet
  BY DEF Kopf, MaxVerbindet
<1>2. QED
  BY <1>1 DEF Verbindet, Kopf

LEMMA ZurueckTyp ==
  ASSUME NEW h \in Kopf, h.verbindet > 0
  PROVE  /\ Zurueck(h) \in Kopf
         /\ \A k \in Verb : Verbunden(h, k) \in Kopf
<1>1. h.verbindet - 1 \in 0..MaxVerbindet
  BY DEF Kopf, MaxVerbindet
<1>2. Zurueck(h) \in Kopf
  BY <1>1 DEF Zurueck, Kopf
<1>3. \A k \in Verb : Verbunden(h, k) \in Kopf
  BY <1>2 DEF Verbunden, Kopf
<1>4. QED
  BY <1>2, <1>3

LEMMA StartTyp == ASSUME Typ, NEW i \in Instanz, Start(i) PROVE Typ'
<1> DEFINE h == [kopf[i] EXCEPT !.laeuft = TRUE]
<1>1. h \in Kopf /\ h.verbindet < MaxVerbindet
  BY DEF Typ, TypeInv, Start, Kopf
<1>2. kopf' = [kopf EXCEPT ![i] = Verbindet(h)] /\ UNCHANGED <<verb, gateway, risse, stopps>>
  BY DEF Start
<1> HIDE DEF h
<1>3. QED
  BY <1>1, <1>2, VerbindetTyp, NurKopfTyp

LEMMA TimerTyp == ASSUME Typ, NEW i \in Instanz, TimerFeuert(i) PROVE Typ'
<1> DEFINE h == [kopf[i] EXCEPT !.timer = FALSE]
<1>1. h \in Kopf /\ h.verbindet < MaxVerbindet
  BY DEF Typ, TypeInv, TimerFeuert, Kopf
<1>2. kopf' = [kopf EXCEPT ![i] = Verbindet(h)] /\ UNCHANGED <<verb, gateway, risse, stopps>>
  BY DEF TimerFeuert
<1> HIDE DEF h
<1>3. QED
  BY <1>1, <1>2, VerbindetTyp, NurKopfTyp

LEMMA KeinTokenTyp == ASSUME Typ, NEW i \in Instanz, KeinToken(i) PROVE Typ'
<1>1. Spaeter(Zurueck(kopf[i])) \in Kopf
  BY ZurueckTyp, SpaeterTyp DEF Typ, TypeInv, KeinToken
<1>2. QED
  BY <1>1, NurKopfTyp DEF KeinToken

LEMMA StopTyp == ASSUME Typ, NEW i \in Instanz, Stop(i) PROVE Typ'
<1>1. \A k \in Verb : verb'[k] \in {verb[k], [verb[k] EXCEPT !.kopf = "schliesst"]}
                      /\ (verb'[k] # verb[k] => verb[k].kopf = "auf")
  BY DEF Stop
<1>2. \A k \in Verb : VerbGut(verb'[k]) /\ verb'[k].gate = verb[k].gate
  <2>1. TAKE k \in Verb
  <2>2. VerbGut(verb[k]) /\ verb[k] \in Verbindung
    BY VerbAusTyp DEF VerbGut
  <2>3. CASE verb'[k] = verb[k]
    BY <2>2, <2>3
  <2>4. CASE verb'[k] # verb[k]
    BY <1>1, <2>2, <2>4, KopfEndeGut DEF Verbindung
  <2>5. QED
    BY <2>3, <2>4
<1>3. verb' \in [Verb -> Verbindung] /\ FreiOhneInstanz' /\ HalloSteht'
  BY <1>2, TypAusVerb DEF Stop
<1>4. kopf' \in [Instanz -> Kopf] /\ stopps' \in 0..MaxStopps
  <2>1. Angehalten(kopf[i]) \in Kopf
    BY DEF Typ, TypeInv, Angehalten, Kopf
  <2>2. QED
    BY <2>1, GrenzenAssumption DEF Typ, TypeInv, Stop
<1>5. UNCHANGED <<koepfe, vergangen, gesehen, aufruf, risse>>
  BY DEF Stop, gateway
<1>6. QED
  BY <1>2, <1>3, <1>4, <1>5 DEF Typ, TypeInv, KoepfeOffen

LEMMA VerbindenTyp ==
  ASSUME Typ, NEW i \in Instanz, NEW k \in Verb, Verbinden(i, k) PROVE Typ'
<1>1. /\ \A j \in Verb : VerbGut(verb'[j])
      /\ \A j \in koepfe' : verb'[j].gate # "zu"
  BY VerbAusTyp, NeuTyp DEF Verbinden, VerbGut, Neu, Typ, KoepfeOffen, TypeInv
<1>2. verb' \in [Verb -> Verbindung] /\ FreiOhneInstanz' /\ HalloSteht'
  BY <1>1, TypAusVerb, VerbAusTyp DEF Verbinden
<1>3. kopf' \in [Instanz -> Kopf] /\ koepfe' \subseteq Verb
  BY ZurueckTyp DEF Typ, TypeInv, Verbinden
<1>4. QED
  BY <1>1, <1>2, <1>3 DEF Typ, TypeInv, KoepfeOffen, Verbinden

LEMMA KopfGetrenntTyp ==
  ASSUME Typ, NEW k \in Verb, KopfGetrennt(k) PROVE Typ'
<1>1. verb[k].von \in Instanz
  BY VerbAusTyp DEF KopfGetrennt, VerbGut, Verbindung, Frei
<1>2. \A j \in Verb : VerbGut(verb'[j]) /\ (verb[j].gate # "zu" => verb'[j].gate # "zu")
  BY VerbAusTyp, FreiTyp DEF KopfGetrennt, VerbGut, Verbindung, Ohne, Frei
<1>3. verb' \in [Verb -> Verbindung] /\ FreiOhneInstanz' /\ HalloSteht'
  BY <1>2, TypAusVerb, VerbAusTyp DEF KopfGetrennt
<1>4. kopf' \in [Instanz -> Kopf]
  <2> DEFINE h == [kopf[verb[k].von] EXCEPT !.ws = IF @ = k THEN Keine ELSE @]
  <2>1. h \in Kopf
    BY <1>1 DEF Typ, TypeInv, Kopf
  <2>2. kopf' = [kopf EXCEPT ![verb[k].von] = Spaeter(h)]
    BY DEF KopfGetrennt
  <2> HIDE DEF h
  <2>3. QED
    BY <1>1, <2>1, <2>2, SpaeterTyp DEF Typ, TypeInv
<1>5. UNCHANGED <<koepfe, vergangen, gesehen, aufruf, risse, stopps>>
  BY DEF KopfGetrennt, gateway
<1>6. QED
  BY <1>2, <1>3, <1>4, <1>5 DEF Typ, TypeInv, KoepfeOffen

-----------------------------------------------------------------------------
LEMMA GateEndeGut ==
  ASSUME NEW v, VerbGut(v), v.gate # "zu"
  PROVE  VerbGut([v EXCEPT !.gate = "schliesst"]) /\ v # Frei
  BY DEF VerbGut, Verbindung, Frei

LEMMA BekanntGut ==
  ASSUME NEW v, VerbGut(v), v.gate # "zu", NEW mcp \in BOOLEAN
  PROVE  /\ VerbGut(Bekannt(v, mcp))
         /\ Bekannt(v, mcp).gate = v.gate /\ Bekannt(v, mcp).von = v.von /\ Bekannt(v, mcp).bekannt
<1> DEFINE u == Bekannt(v, mcp)
<1>1. v.von # Keine /\ v \in Verbindung
  BY DEF VerbGut, Frei
<1>2. u \in Verbindung
  BY <1>1 DEF Verbindung, Bekannt
<1>3. u.von = v.von /\ ~u.hallo /\ u.bekannt /\ u.gate = v.gate
  BY <1>1 DEF Verbindung, Bekannt
<1>4. QED
  BY <1>1, <1>2, <1>3 DEF VerbGut

\* Marks of a connection that is not free.
LEMMA MarkeGut ==
  ASSUME NEW v, VerbGut(v), v # Frei, NEW b \in BOOLEAN
  PROVE  /\ VerbGut([v EXCEPT !.mcp = b]) /\ [v EXCEPT !.mcp = b].gate = v.gate
         /\ VerbGut([v EXCEPT !.lebt = b]) /\ [v EXCEPT !.lebt = b].gate = v.gate
         /\ VerbGut([v EXCEPT !.leitung = b]) /\ [v EXCEPT !.leitung = b].gate = v.gate
  BY DEF VerbGut, Verbindung

\* What becomes of the connections when k says hallo.
LEMMA HalloVerb ==
  ASSUME Typ, NEW k \in Verb, NEW mcp \in BOOLEAN, Hallo(k, mcp), NEW j \in Verb
  PROVE  /\ j = k => verb'[j] = Bekannt(verb[k], mcp)
         /\ j # k /\ j \in Unter(verb[k].von, koepfe \ {k})
              => verb'[j] = [verb[j] EXCEPT !.gate = "schliesst"] /\ verb[j].gate # "zu"
         /\ j # k /\ j \notin Unter(verb[k].von, koepfe \ {k}) => verb'[j] = verb[j]
  BY DEF Hallo, Typ, KoepfeOffen, Unter

LEMMA HalloTyp ==
  ASSUME Typ, NEW k \in Verb, NEW mcp \in BOOLEAN, Hallo(k, mcp) PROVE Typ'
<1>1. verb[k].gate = "auf" /\ verb[k].von \in Instanz
  BY DEF Hallo, Typ, TypeInv, FreiOhneInstanz, Verbindung, Frei
<1>2. ASSUME NEW j \in Verb
      PROVE  VerbGut(verb'[j]) /\ (verb[j].gate # "zu" => verb'[j].gate # "zu")
  <2>1. VerbGut(verb[j]) /\ verb[j] \in Verbindung
    BY VerbAusTyp DEF VerbGut
  <2>2. CASE j = k
    <3>1. verb'[j] = Bekannt(verb[k], mcp)
      BY <2>2, HalloVerb
    <3>2. VerbGut(Bekannt(verb[k], mcp)) /\ Bekannt(verb[k], mcp).gate = "auf"
      BY <1>1, <2>1, <2>2, BekanntGut
    <3>3. QED
      BY <3>1, <3>2
  <2>3. CASE j # k /\ j \in Unter(verb[k].von, koepfe \ {k})
    <3>1. verb'[j] = [verb[j] EXCEPT !.gate = "schliesst"] /\ verb[j].gate # "zu"
      BY <2>3, HalloVerb
    <3>2. VerbGut([verb[j] EXCEPT !.gate = "schliesst"])
      BY <2>1, <3>1, GateEndeGut
    <3>3. QED
      BY <2>1, <3>1, <3>2 DEF Verbindung
  <2>4. CASE j # k /\ j \notin Unter(verb[k].von, koepfe \ {k})
    BY <2>1, <2>4, HalloVerb
  <2>5. QED
    BY <2>2, <2>3, <2>4
<1>3. verb' \in [Verb -> Verbindung] /\ FreiOhneInstanz' /\ HalloSteht'
  BY <1>2, TypAusVerb DEF Hallo
<1>4. koepfe' \subseteq koepfe \cup {k}
  BY DEF Hallo, Ersetzt
<1>5. KoepfeOffen'
  BY <1>1, <1>2, <1>4 DEF Typ, TypeInv, KoepfeOffen
<1>6. aufruf' \in [Aufruf -> [stand: {"neu", "offen", "antwort", "fehler"}, bei: Verb \cup {Keine}]]
  BY AbgebrochenTyp DEF Hallo, Typ
<1>7. UNCHANGED <<kopf, risse, stopps>> /\ vergangen' \subseteq vergangen
      /\ gesehen' = gesehen \cup {verb[k].von}
  BY DEF Hallo
<1>8. QED
  BY <1>1, <1>3, <1>4, <1>5, <1>6, <1>7 DEF Typ, TypeInv

\* A step that changes one connection and nothing that the map depends on.
LEMMA EineVerbTyp ==
  ASSUME Typ, NEW k \in Verb, NEW v, VerbGut(v), v.gate = verb[k].gate,
         verb' = [verb EXCEPT ![k] = v],
         UNCHANGED <<koepfe, vergangen, gesehen, kopf, aufruf, stopps>>, risse' \in 0..MaxRisse
  PROVE  Typ'
<1>1. \A j \in Verb : VerbGut(verb'[j]) /\ verb'[j].gate = verb[j].gate
  BY VerbAusTyp DEF VerbGut
<1>2. verb' \in [Verb -> Verbindung] /\ FreiOhneInstanz' /\ HalloSteht'
  BY <1>1, TypAusVerb, VerbAusTyp
<1>3. QED
  BY <1>1, <1>2 DEF Typ, TypeInv, KoepfeOffen

LEMMA ZustandTyp == ASSUME Typ, NEW k \in Verb, Zustand(k) PROVE Typ'
<1> DEFINE v == [verb[k] EXCEPT !.mcp = ~verb[k].mcp]
<1>1. VerbGut(v) /\ v.gate = verb[k].gate
  <2>1. VerbGut(verb[k]) /\ verb[k] # Frei
    BY VerbAusTyp DEF Zustand, Frei, Antwortet
  <2>2. verb[k].mcp \in BOOLEAN
    BY <2>1 DEF VerbGut, Verbindung
  <2>3. QED
    BY <2>1, <2>2, MarkeGut
<1>2. verb' = [verb EXCEPT ![k] = v] /\ UNCHANGED <<koepfe, vergangen, gesehen, kopf, aufruf, risse, stopps>>
  BY DEF Zustand, gateway
<1> HIDE DEF v
<1>3. QED
  BY <1>1, <1>2, EineVerbTyp DEF Typ, TypeInv

LEMMA PongTyp == ASSUME Typ, NEW k \in Verb, Pong(k) PROVE Typ'
<1> DEFINE v == [verb[k] EXCEPT !.lebt = TRUE]
<1>1. VerbGut(v) /\ v.gate = verb[k].gate
  <2>1. VerbGut(verb[k]) /\ verb[k] # Frei
    BY VerbAusTyp DEF Pong, Frei, Antwortet
  <2>2. verb[k].mcp \in BOOLEAN
    BY <2>1 DEF VerbGut, Verbindung
  <2>3. QED
    BY <2>1, <2>2, MarkeGut
<1>2. verb' = [verb EXCEPT ![k] = v] /\ UNCHANGED <<koepfe, vergangen, gesehen, kopf, aufruf, risse, stopps>>
  BY DEF Pong, gateway
<1> HIDE DEF v
<1>3. QED
  BY <1>1, <1>2, EineVerbTyp DEF Typ, TypeInv

LEMMA RissTyp == ASSUME Typ, NEW k \in Verb, LeitungReisst(k) PROVE Typ'
<1> DEFINE v == [verb[k] EXCEPT !.leitung = FALSE]
<1>1. VerbGut(v) /\ v.gate = verb[k].gate
  <2>1. VerbGut(verb[k]) /\ verb[k] # Frei
    BY VerbAusTyp DEF LeitungReisst, Frei, Antwortet
  <2>2. verb[k].mcp \in BOOLEAN
    BY <2>1 DEF VerbGut, Verbindung
  <2>3. QED
    BY <2>1, <2>2, MarkeGut
<1>2. verb' = [verb EXCEPT ![k] = v] /\ UNCHANGED <<koepfe, vergangen, gesehen, kopf, aufruf, stopps>>
  BY DEF LeitungReisst, gateway
<1>3. risse' \in 0..MaxRisse
  BY GrenzenAssumption DEF LeitungReisst, Typ, TypeInv
<1> HIDE DEF v
<1>4. QED
  BY <1>1, <1>2, <1>3, EineVerbTyp

LEMMA GateGetrenntTyp == ASSUME Typ, NEW k \in Verb, GateGetrennt(k) PROVE Typ'
<1> DEFINE v == Ohne([verb[k] EXCEPT !.gate = "zu", !.hallo = FALSE])
<1>1. verb[k].von \in Instanz
  BY VerbAusTyp DEF GateGetrennt, VerbGut, Verbindung, Frei
<1>2. VerbGut(v)
  BY <1>1, VerbAusTyp, KeineAssumption, FreiTyp DEF Ohne, VerbGut, Verbindung, Frei
<1>3. verb' = [verb EXCEPT ![k] = v]
  BY DEF GateGetrennt
<1> HIDE DEF v
<1>4. \A j \in Verb : VerbGut(verb'[j]) /\ (j # k => verb'[j] = verb[j])
  BY <1>2, <1>3, VerbAusTyp
<1>5. verb' \in [Verb -> Verbindung] /\ FreiOhneInstanz' /\ HalloSteht'
  BY <1>3, <1>4, TypAusVerb, VerbAusTyp
<1>6. koepfe' = koepfe \ {k} /\ vergangen' \subseteq vergangen \cup {verb[k].von}
      /\ UNCHANGED <<gesehen, kopf, risse, stopps>>
  BY DEF GateGetrennt, Gemerkt, Ausgetragen
<1>7. aufruf' \in [Aufruf -> [stand: {"neu", "offen", "antwort", "fehler"}, bei: Verb \cup {Keine}]]
  BY AbgebrochenTyp DEF GateGetrennt, Typ
<1>8. KoepfeOffen'
  BY <1>4, <1>6 DEF Typ, TypeInv, KoepfeOffen
<1>9. QED
  BY <1>1, <1>5, <1>6, <1>7, <1>8 DEF Typ, TypeInv

LEMMA PingTyp == ASSUME Typ, Ping PROVE Typ'
<1>1. ASSUME NEW j \in Verb
      PROVE  VerbGut(verb'[j]) /\ (verb[j].gate # "zu" => verb'[j].gate # "zu")
  <2>1. VerbGut(verb[j]) /\ verb[j] \in Verbindung
    BY VerbAusTyp DEF VerbGut
  <2>2. verb'[j] = IF j \in koepfe THEN NachPing(verb[j]) ELSE verb[j]
    BY DEF Ping
  <2>3. CASE j \notin koepfe
    BY <2>1, <2>2, <2>3
  <2>4. CASE j \in koepfe
    <3>1. verb[j].gate # "zu"
      BY <2>4 DEF Typ, KoepfeOffen
    <3>2. VerbGut([verb[j] EXCEPT !.gate = "schliesst"]) /\ verb[j] # Frei
      BY <2>1, <3>1, GateEndeGut
    <3>3. VerbGut([verb[j] EXCEPT !.lebt = FALSE])
      BY <2>1, <3>2, MarkeGut
    <3>4. QED
      BY <2>1, <2>2, <2>4, <3>1, <3>2, <3>3 DEF NachPing, Verbindung
  <2>5. QED
    BY <2>3, <2>4
<1>2. verb' \in [Verb -> Verbindung] /\ FreiOhneInstanz' /\ HalloSteht'
  BY <1>1, TypAusVerb DEF Ping
<1>3. UNCHANGED <<koepfe, vergangen, gesehen, kopf, aufruf, risse, stopps>>
  BY DEF Ping, gateway
<1>4. QED
  BY <1>1, <1>2, <1>3 DEF Typ, TypeInv, KoepfeOffen

LEMMA NeustartTyp == ASSUME Typ, GatewayNeustart PROVE Typ'
<1>1. ASSUME NEW j \in Verb
      PROVE  VerbGut(verb'[j])
  <2> DEFINE u == [verb[j] EXCEPT !.gate = "zu", !.hallo = FALSE]
  <2>1. VerbGut(verb[j])
    BY VerbAusTyp
  <2>2. verb[j] \in Verbindung
    BY <2>1 DEF VerbGut
  <2>3. u \in Verbindung /\ u.von = verb[j].von /\ ~u.hallo /\ u.gate = "zu" /\ u.kopf = verb[j].kopf
    BY <2>2 DEF Verbindung
  <2>4. verb'[j] = Ohne(u)
    BY DEF GatewayNeustart
  <2> HIDE DEF u
  <2>5. VerbGut(Frei)
    BY FreiTyp DEF VerbGut, Frei
  <2>6. CASE verb[j].von = Keine
    <3>1. u.kopf = "zu"
      BY <2>1, <2>3, <2>6 DEF VerbGut, Frei
    <3>2. QED
      BY <2>3, <2>4, <2>5, <3>1 DEF Ohne
  <2>7. CASE verb[j].von # Keine
    <3>1. VerbGut(u)
      BY <2>3, <2>7 DEF VerbGut
    <3>2. QED
      BY <2>3, <2>4, <2>5, <3>1, OhneTyp
  <2>8. QED
    BY <2>6, <2>7
<1>2. verb' \in [Verb -> Verbindung] /\ FreiOhneInstanz' /\ HalloSteht'
  BY <1>1, TypAusVerb DEF GatewayNeustart
<1>3. aufruf' \in [Aufruf -> [stand: {"neu", "offen", "antwort", "fehler"}, bei: Verb \cup {Keine}]]
  BY AbgebrochenTyp DEF GatewayNeustart, Typ
<1>4. koepfe' = {} /\ vergangen' = {} /\ gesehen' = {} /\ UNCHANGED <<kopf, stopps>>
  BY DEF GatewayNeustart
<1>5. risse' \in 0..MaxRisse
  <2>1. risse < MaxRisse /\ risse' = risse + 1
    BY DEF GatewayNeustart
  <2>2. QED
    BY <2>1, GrenzenAssumption DEF Typ, TypeInv
<1>6. QED
  BY <1>2, <1>3, <1>4, <1>5 DEF Typ, TypeInv, KoepfeOffen

-----------------------------------------------------------------------------
\* Whom a call may ask: connections of the map that are known by their instance.
LEMMA GefragteBekannt ==
  /\ McpKopf \subseteq Bekannte
  /\ \A i \in Instanz : AppKopf(i) \subseteq Bekannte
  BY DEF McpKopf, AppKopf, Beste, Bekannte, Unter

\* A step of the calls, as the steps' proofs need it.
AufrufSchritt ==
    /\ UNCHANGED <<verb, koepfe, vergangen, gesehen, kopf, risse, stopps>>
    /\ \E c \in Aufruf, a \in [stand: {"offen"}, bei: Bekannte]
                            \cup [stand: {"antwort", "fehler"}, bei: Verb \cup {Keine}] :
         aufruf' = [aufruf EXCEPT ![c] = a]

LEMMA AufrufBeiSchritt ==
  ASSUME Typ, NEW c \in Aufruf, NEW K \in SUBSET Bekannte, AufrufBei(c, K)
  PROVE  AufrufSchritt
<1>1. aufruf[c].bei \in Verb \cup {Keine}
  BY DEF Typ, TypeInv
<1>2. CASE K = {}
  <2>1. aufruf' = [aufruf EXCEPT ![c] = [stand |-> "fehler", bei |-> aufruf[c].bei]]
    BY <1>2 DEF AufrufBei, Typ, TypeInv
  <2>2. QED
    BY <1>1, <2>1 DEF AufrufBei, AufrufSchritt
<1>3. CASE K # {}
  <2>1. PICK k \in K : aufruf' = [aufruf EXCEPT ![c] = [stand |-> "offen", bei |-> k]]
    BY <1>3 DEF AufrufBei
  <2>2. QED
    BY <2>1 DEF AufrufBei, AufrufSchritt
<1>4. QED
  BY <1>2, <1>3

LEMMA BeendetSchritt ==
  ASSUME Typ, NEW c \in Aufruf, Ergebnis(c) \/ Zeitablauf(c) \/ \E i \in Instanz : ZuAlt(c, i)
  PROVE  AufrufSchritt
  BY DEF Ergebnis, Zeitablauf, ZuAlt, Beendet, AufrufSchritt

LEMMA AufrufTyp == ASSUME Typ, AufrufSchritt PROVE Typ'
<1>1. Bekannte \subseteq Verb
  BY DEF Bekannte, Typ, TypeInv
<1>2. aufruf' \in [Aufruf -> [stand: {"neu", "offen", "antwort", "fehler"}, bei: Verb \cup {Keine}]]
  BY <1>1 DEF AufrufSchritt, Typ, TypeInv
<1>3. QED
  BY <1>2 DEF AufrufSchritt, Typ, TypeInv, FreiOhneInstanz, KoepfeOffen, HalloSteht

\* Every step of the calls is one AufrufSchritt.
LEMMA Aufrufe ==
  ASSUME Typ, NEW c \in Aufruf,
         \/ Aufrufen(c) \/ AufrufenAlle(c) \/ Ergebnis(c) \/ Zeitablauf(c)
         \/ \E i \in Instanz : AppAnfrage(c, i)
  PROVE  AufrufSchritt
<1>1. CASE Aufrufen(c)
  BY <1>1, GefragteBekannt, AufrufBeiSchritt DEF Aufrufen
<1>2. CASE AufrufenAlle(c)
  BY <1>2, AufrufBeiSchritt DEF AufrufenAlle
<1>3. CASE Ergebnis(c) \/ Zeitablauf(c)
  BY <1>3, BeendetSchritt
<1>4. ASSUME NEW i \in Instanz, AppAnfrage(c, i)
      PROVE  AufrufSchritt
  BY <1>4, GefragteBekannt, AufrufBeiSchritt, BeendetSchritt DEF AppAnfrage
<1>5. QED
  BY <1>1, <1>2, <1>3, <1>4

LEMMA TypNext == Typ /\ [Next]_vars => Typ'
<1> SUFFICES ASSUME Typ, [Next]_vars PROVE Typ'
  OBVIOUS
<1>1. ASSUME NEW i \in Instanz, Start(i) \/ Stop(i) \/ TimerFeuert(i) \/ KeinToken(i)
      PROVE  Typ'
  BY <1>1, StartTyp, StopTyp, TimerTyp, KeinTokenTyp
<1>2. ASSUME NEW i \in Instanz, NEW k \in Verb, Verbinden(i, k)
      PROVE  Typ'
  BY <1>2, VerbindenTyp
<1>3. ASSUME NEW k \in Verb, KopfGetrennt(k) \/ GateGetrennt(k) \/ Zustand(k) \/ Pong(k) \/ LeitungReisst(k)
      PROVE  Typ'
  BY <1>3, KopfGetrenntTyp, GateGetrenntTyp, ZustandTyp, PongTyp, RissTyp
<1>4. ASSUME NEW k \in Verb, NEW mcp \in BOOLEAN, Hallo(k, mcp)
      PROVE  Typ'
  BY <1>4, HalloTyp
<1>5. CASE Ping \/ GatewayNeustart
  BY <1>5, PingTyp, NeustartTyp
<1>6. ASSUME NEW c \in Aufruf,
             \/ Aufrufen(c) \/ AufrufenAlle(c) \/ Ergebnis(c) \/ Zeitablauf(c)
             \/ \E i \in Instanz : AppAnfrage(c, i)
      PROVE  Typ'
  BY <1>6, Aufrufe, AufrufTyp
<1>7. CASE UNCHANGED vars
  BY <1>7 DEF vars, Typ, TypeInv, FreiOhneInstanz, KoepfeOffen, HalloSteht
<1>8. QED
  BY <1>1, <1>2, <1>3, <1>4, <1>5, <1>6, <1>7 DEF Next

\* Type correctness, with what the map and the connections owe each other: a
\* connection in the map is open at the gateway, one without an instance is free.
THEOREM TypImmer == Spec => []Typ
<1>1. Init => Typ
  BY TypInit
<1>2. Typ /\ [Next]_vars => Typ'
  BY TypNext
<1>3. QED
  BY <1>1, <1>2, PTL DEF Spec

\* Every variable has its type in every state.
THEOREM TypeInvImmer == Spec => []TypeInv
<1>1. Typ => TypeInv
  BY DEF Typ
<1>2. QED
  BY <1>1, TypImmer, PTL

-----------------------------------------------------------------------------
(* The map, the calls and the list.  All steps but hallo and the start of a *)
(* call are alike in what they may do to them: the connections in K leave.  *)

\* Nothing becomes known; who is known and not in K stays in the map.
KoepfeBleiben(K) ==
    /\ \A k \in koepfe' : verb'[k].bekannt => k \in koepfe /\ verb[k].bekannt /\ verb'[k].von = verb[k].von
    /\ \A k \in koepfe \ K : verb[k].bekannt => k \in koepfe' /\ verb'[k].bekannt

\* No call is opened, those at K are settled.
AufrufeBleiben(K) ==
    \A c \in Aufruf : aufruf'[c].stand = "offen" =>
        aufruf[c].stand = "offen" /\ aufruf'[c].bei = aufruf[c].bei /\ aufruf[c].bei \notin K

\* Who leaves is listed as past.
ListeBleibt ==
    /\ gesehen' \subseteq gesehen
    /\ \A i \in gesehen' : i \in vergangen => i \in vergangen'
    /\ \A k \in Verb : Gelistet(k) /\ verb[k].von \in gesehen' =>
          \/ Gelistet(k)' /\ verb'[k].von = verb[k].von
          \/ verb[k].von \in vergangen'

Bleibt(K) == KoepfeBleiben(K) /\ AufrufeBleiben(K) /\ ListeBleibt

\* The steps that leave to every connection its instance, its place in the map
\* and the gateway's end as it was, or closing.
LEMMA VerbBleibt ==
  ASSUME Typ, UNCHANGED gateway,
         \A k \in Verb : verb[k].gate # "zu" =>
            verb'[k].bekannt = verb[k].bekannt /\ verb'[k].von = verb[k].von
            /\ verb'[k].gate \in {verb[k].gate, "schliesst"}
  PROVE  Bleibt({})
  BY DEF Bleibt, Gelistet, KoepfeBleiben, AufrufeBleiben, ListeBleibt, gateway, Typ, TypeInv, KoepfeOffen

LEMMA KopfSchrittBleibt ==
  ASSUME Typ, NEW i \in Instanz, Start(i) \/ TimerFeuert(i) \/ KeinToken(i)
  PROVE  Bleibt({})
  BY VerbBleibt DEF Start, TimerFeuert, KeinToken

LEMMA StopBleibt == ASSUME Typ, NEW i \in Instanz, Stop(i) PROVE Bleibt({})
<1>1. \A k \in Verb : verb'[k] \in {verb[k], [verb[k] EXCEPT !.kopf = "schliesst"]}
  BY DEF Stop
<1>2. \A k \in Verb : verb'[k].bekannt = verb[k].bekannt /\ verb'[k].von = verb[k].von /\ verb'[k].gate = verb[k].gate
  BY <1>1 DEF Typ, TypeInv, Verbindung
<1>3. QED
  BY <1>2, VerbBleibt DEF Stop

LEMMA VerbindenBleibt ==
  ASSUME Typ, NEW i \in Instanz, NEW k \in Verb, Verbinden(i, k)
  PROVE  Bleibt({})
<1>1. verb[k].gate = "zu" /\ k \notin koepfe
  BY DEF Verbinden, Frei, Typ, KoepfeOffen
<1>2. \A j \in Verb : verb'[j] = IF j = k THEN Neu(i) ELSE verb[j]
  BY DEF Verbinden, Typ, TypeInv
<1>3. koepfe' = koepfe \cup {k} /\ UNCHANGED <<vergangen, gesehen, aufruf>>
  BY DEF Verbinden
<1>4. KoepfeBleiben({})
  BY <1>1, <1>2, <1>3 DEF KoepfeBleiben, Neu, Typ, TypeInv
<1>5. AufrufeBleiben({}) /\ ListeBleibt
  BY <1>1, <1>2, <1>3 DEF AufrufeBleiben, ListeBleibt, Gelistet, Frei, Verbinden
<1>6. QED
  BY <1>4, <1>5 DEF Bleibt

LEMMA KopfGetrenntBleibt ==
  ASSUME Typ, NEW k \in Verb, KopfGetrennt(k)
  PROVE  Bleibt({})
<1> DEFINE u == [verb[k] EXCEPT !.kopf = "zu"]
<1>1. u.gate = verb[k].gate /\ u.von = verb[k].von /\ u.bekannt = verb[k].bekannt
  BY DEF Typ, TypeInv, Verbindung
<1>2. \A j \in Verb : verb'[j] = IF j = k THEN Ohne(u) ELSE verb[j]
  BY DEF KopfGetrennt, Typ, TypeInv
<1>3. UNCHANGED gateway
  BY DEF KopfGetrennt
<1> HIDE DEF u
<1>4. QED
  BY <1>1, <1>2, <1>3, VerbBleibt DEF Ohne

LEMMA MarkenBleiben ==
  ASSUME Typ, NEW k \in Verb, Zustand(k) \/ Pong(k) \/ LeitungReisst(k)
  PROVE  Bleibt({})
<1>1. \A j \in Verb : verb'[j] \in {verb[j], [verb[j] EXCEPT !.mcp = ~@], [verb[j] EXCEPT !.lebt = TRUE],
                                     [verb[j] EXCEPT !.leitung = FALSE]}
  BY DEF Zustand, Pong, LeitungReisst, Typ, TypeInv
<1>2. \A j \in Verb : verb'[j].bekannt = verb[j].bekannt /\ verb'[j].von = verb[j].von /\ verb'[j].gate = verb[j].gate
  BY <1>1 DEF Typ, TypeInv, Verbindung
<1>3. QED
  BY <1>2, VerbBleibt DEF Zustand, Pong, LeitungReisst

LEMMA PingBleibt == ASSUME Typ, Ping PROVE Bleibt({})
<1>1. \A j \in Verb : verb'[j] \in {verb[j], [verb[j] EXCEPT !.lebt = FALSE], [verb[j] EXCEPT !.gate = "schliesst"]}
  BY DEF Ping, NachPing
<1>2. \A j \in Verb : /\ verb'[j].bekannt = verb[j].bekannt /\ verb'[j].von = verb[j].von
                      /\ verb'[j].gate \in {verb[j].gate, "schliesst"}
  BY <1>1 DEF Typ, TypeInv, Verbindung
<1>3. QED
  BY <1>2, VerbBleibt DEF Ping

LEMMA AbgebrochenBleibt ==
  ASSUME NEW K, aufruf' = Abgebrochen(K)
  PROVE  AufrufeBleiben(K)
  BY DEF AufrufeBleiben, Abgebrochen

LEMMA GateGetrenntBleibt ==
  ASSUME Typ, NEW k \in Verb, GateGetrennt(k)
  PROVE  Bleibt({k})
<1>1. \A j \in Verb : j # k => verb'[j] = verb[j]
  BY DEF GateGetrennt, Typ, TypeInv
<1>2. koepfe' = koepfe \ {k} /\ vergangen' = Gemerkt(k) /\ gesehen' = gesehen
  BY DEF GateGetrennt, Ausgetragen
<1>3. KoepfeBleiben({k})
  BY <1>1, <1>2 DEF KoepfeBleiben, Typ, TypeInv
<1>4. ListeBleibt
  BY <1>1, <1>2 DEF ListeBleibt, Gemerkt, Gelistet
<1>5. QED
  BY <1>3, <1>4, AbgebrochenBleibt DEF Bleibt, GateGetrennt

LEMMA NeustartBleibt == ASSUME Typ, GatewayNeustart PROVE Bleibt(Verb)
<1>1. koepfe' = {} /\ gesehen' = {} /\ koepfe \subseteq Verb
  BY DEF GatewayNeustart, Typ, TypeInv
<1>2. KoepfeBleiben(Verb) /\ ListeBleibt
  BY <1>1 DEF KoepfeBleiben, ListeBleibt, Typ, TypeInv
<1>3. QED
  BY <1>2, AbgebrochenBleibt DEF Bleibt, GatewayNeustart

\* The inductive invariant.  A call waits at a connection that is not only in
\* the map but known: one that has still to say hallo may be dropped with the
\* account's old map, and would take a call with it.
AufrufBeiBekanntem == \A c \in Aufruf : aufruf[c].stand = "offen" => aufruf[c].bei \in Bekannte

\* The set "koepfe" stands for a map by id, so it has one entry for each at most.
EineJeInstanz == \A i \in Instanz : \A j, k \in Unter(i, koepfe) : j = k

Sicher == EineJeInstanz /\ AufrufBeiBekanntem /\ ListeVollstaendig

LEMMA SicherBleibt ==
  ASSUME Typ, Sicher, NEW K, Bleibt(K)
  PROVE  Sicher'
<1>1. EineJeInstanz'
  BY DEF Sicher, EineJeInstanz, Unter, Bleibt, KoepfeBleiben
<1>2. AufrufBeiBekanntem'
  BY DEF Sicher, AufrufBeiBekanntem, Bekannte, Bleibt, KoepfeBleiben, AufrufeBleiben
<1>3. ASSUME NEW i \in gesehen', i \notin vergangen'
      PROVE  \E k \in Verb : verb'[k].von = i /\ Gelistet(k)'
  <2>1. i \in gesehen /\ i \notin vergangen
    BY <1>3 DEF Bleibt, ListeBleibt
  <2>2. PICK k \in Verb : verb[k].von = i /\ Gelistet(k)
    BY <2>1 DEF Sicher, ListeVollstaendig
  <2>3. QED
    BY <1>3, <2>2 DEF Bleibt, ListeBleibt
<1>4. ListeVollstaendig'
  BY <1>3 DEF ListeVollstaendig
<1>5. QED
  BY <1>1, <1>2, <1>4 DEF Sicher

\* The connection that says hallo replaces the others of its instance.
LEMMA HalloSicher ==
  ASSUME Typ, Sicher, NEW k \in Verb, NEW mcp \in BOOLEAN, Hallo(k, mcp)
  PROVE  Sicher'
<1> DEFINE alt == Unter(verb[k].von, koepfe \ {k})
<1>1. /\ VerbGut(verb[k]) /\ verb[k].gate = "auf" /\ ~verb[k].bekannt
      /\ \A j \in Verb : VerbGut(verb[j])
  BY VerbAusTyp DEF Hallo, VerbGut
<1>2. verb'[k].von = verb[k].von /\ verb'[k].bekannt /\ verb'[k].gate = "auf"
  <2>1. verb'[k] = Bekannt(verb[k], mcp)
    BY HalloVerb
  <2>2. /\ Bekannt(verb[k], mcp).von = verb[k].von /\ Bekannt(verb[k], mcp).bekannt
        /\ Bekannt(verb[k], mcp).gate = "auf"
    BY <1>1, BekanntGut
  <2>3. QED
    BY <2>1, <2>2
<1>3. ASSUME NEW j \in Verb, j # k
      PROVE  /\ verb'[j].von = verb[j].von /\ verb'[j].bekannt = verb[j].bekannt
             /\ verb[j].gate # "zu" => verb'[j].gate # "zu"
  <2>1. verb[j] \in Verbindung
    BY <1>1 DEF VerbGut
  <2>2. verb'[j] = verb[j] \/ verb'[j] = [verb[j] EXCEPT !.gate = "schliesst"]
    BY <1>3, HalloVerb
  <2>3. QED
    BY <2>1, <2>2 DEF Verbindung
<1>4. /\ koepfe' \subseteq (koepfe \ alt) \cup {k}
      /\ (koepfe \ {k}) \ alt \subseteq koepfe'
      /\ alt \subseteq koepfe \ {k}
  BY DEF Hallo, Ersetzt, Unter
<1>5. \A j \in koepfe \ {k} : j \in alt <=> verb[j].bekannt /\ verb[j].von = verb[k].von
  BY DEF Unter
<1>6. aufruf' = Abgebrochen(alt) /\ vergangen' = vergangen \ {verb[k].von}
      /\ gesehen' = gesehen \cup {verb[k].von}
  BY DEF Hallo
<1>7. koepfe \subseteq Verb /\ koepfe' \subseteq Verb
  BY <1>4 DEF Typ, TypeInv
<1>8. \A j \in Verb : /\ j # k /\ j \in alt => verb'[j].gate = "schliesst"
                      /\ j # k /\ j \notin alt => verb'[j] = verb[j]
  <2>1. TAKE j \in Verb
  <2>2. verb[j] \in Verbindung
    BY <1>1 DEF VerbGut
  <2>3. QED
    BY <2>2, HalloVerb DEF Verbindung
<1>9. alt = {} => k \in koepfe'
  BY DEF Hallo, Ersetzt
<1> HIDE DEF alt
<1>10. EineJeInstanz'
  BY <1>2, <1>3, <1>4, <1>5, <1>7 DEF Sicher, EineJeInstanz, Unter
<1>11. AufrufBeiBekanntem'
  <2>1. ASSUME NEW c \in Aufruf, aufruf'[c].stand = "offen"
        PROVE  aufruf'[c].bei \in koepfe' /\ verb'[aufruf'[c].bei].bekannt
    <3>1. aufruf[c].stand = "offen" /\ aufruf'[c].bei = aufruf[c].bei /\ aufruf[c].bei \notin alt
      BY <1>6, <2>1, AbgebrochenBleibt DEF AufrufeBleiben
    <3>2. aufruf[c].bei \in koepfe /\ verb[aufruf[c].bei].bekannt
      BY <3>1 DEF Sicher, AufrufBeiBekanntem, Bekannte
    <3>3. QED
      BY <1>1, <1>3, <1>4, <1>7, <3>1, <3>2
  <2>2. QED
    BY <2>1 DEF AufrufBeiBekanntem, Bekannte
<1>12. ASSUME NEW j \in alt
       PROVE  verb'[j].von = verb[k].von /\ Gelistet(j)'
  <2>1. j \in Verb /\ j # k /\ verb[j].bekannt /\ verb[j].von = verb[k].von
    BY <1>4, <1>5, <1>7
  <2>2. verb'[j].gate = "schliesst"
    BY <1>8, <2>1
  <2>3. QED
    BY <1>3, <2>1, <2>2 DEF Gelistet
<1>13. ListeVollstaendig'
  <2>1. ASSUME NEW i \in gesehen'
        PROVE  i \in vergangen' \/ \E j \in Verb : verb'[j].von = i /\ Gelistet(j)'
    <3>1. CASE i = verb[k].von /\ alt = {}
      <4>1. k \in koepfe'
        BY <1>9, <3>1
      <4>2. QED
        BY <1>2, <3>1, <4>1 DEF Gelistet
    <3>2. CASE i = verb[k].von /\ alt # {}
      BY <1>4, <1>7, <1>12, <3>2
    <3>3. CASE i # verb[k].von
      <4>1. CASE i \in vergangen
        BY <1>6, <3>3, <4>1
      <4>2. CASE i \notin vergangen
        <5>1. PICK j \in Verb : verb[j].von = i /\ Gelistet(j)
          BY <1>6, <3>3, <4>2 DEF Sicher, ListeVollstaendig
        <5>2. j # k /\ j \notin alt
          BY <1>4, <1>5, <3>3, <5>1
        <5>3. verb'[j] = verb[j]
          BY <1>8, <5>2
        <5>4. QED
          BY <1>4, <5>1, <5>2, <5>3 DEF Gelistet
      <4>3. QED
        BY <4>1, <4>2
    <3>4. QED
      BY <3>1, <3>2, <3>3
  <2>2. QED
    BY <2>1 DEF ListeVollstaendig
<1>14. QED
  BY <1>10, <1>11, <1>13 DEF Sicher

LEMMA AufrufSicher == ASSUME Typ, Sicher, AufrufSchritt PROVE Sicher'
<1>1. EineJeInstanz' /\ ListeVollstaendig'
  BY DEF AufrufSchritt, Sicher, EineJeInstanz, Unter, ListeVollstaendig, Gelistet
<1>2. Bekannte' = Bekannte
  BY DEF AufrufSchritt, Bekannte
<1>3. AufrufBeiBekanntem'
  BY <1>2 DEF AufrufSchritt, Sicher, AufrufBeiBekanntem, Typ, TypeInv
<1>4. QED
  BY <1>1, <1>3 DEF Sicher

LEMMA SicherNext == Typ /\ Sicher /\ [Next]_vars => Sicher'
<1> SUFFICES ASSUME Typ, Sicher, [Next]_vars PROVE Sicher'
  OBVIOUS
<1>1. ASSUME NEW i \in Instanz, Start(i) \/ Stop(i) \/ TimerFeuert(i) \/ KeinToken(i)
      PROVE  Sicher'
  BY <1>1, KopfSchrittBleibt, StopBleibt, SicherBleibt
<1>2. ASSUME NEW i \in Instanz, NEW k \in Verb, Verbinden(i, k)
      PROVE  Sicher'
  BY <1>2, VerbindenBleibt, SicherBleibt
<1>3. ASSUME NEW k \in Verb, KopfGetrennt(k) \/ GateGetrennt(k) \/ Zustand(k) \/ Pong(k) \/ LeitungReisst(k)
      PROVE  Sicher'
  BY <1>3, KopfGetrenntBleibt, GateGetrenntBleibt, MarkenBleiben, SicherBleibt
<1>4. ASSUME NEW k \in Verb, NEW mcp \in BOOLEAN, Hallo(k, mcp)
      PROVE  Sicher'
  BY <1>4, HalloSicher
<1>5. CASE Ping \/ GatewayNeustart
  BY <1>5, PingBleibt, NeustartBleibt, SicherBleibt
<1>6. ASSUME NEW c \in Aufruf,
             \/ Aufrufen(c) \/ AufrufenAlle(c) \/ Ergebnis(c) \/ Zeitablauf(c)
             \/ \E i \in Instanz : AppAnfrage(c, i)
      PROVE  Sicher'
  BY <1>6, Aufrufe, AufrufSicher
<1>7. CASE UNCHANGED vars
  BY <1>7 DEF vars, Sicher, EineJeInstanz, Unter, AufrufBeiBekanntem, Bekannte, ListeVollstaendig, Gelistet
<1>8. QED
  BY <1>1, <1>2, <1>3, <1>4, <1>5, <1>6, <1>7 DEF Next

LEMMA SicherImmer == Spec => []Sicher
<1>1. Init => Sicher
  BY DEF Init, Sicher, EineJeInstanz, Unter, AufrufBeiBekanntem, ListeVollstaendig
<1>2. Typ /\ Sicher /\ [Next]_vars => Sicher'
  BY SicherNext
<1>3. QED
  BY <1>1, <1>2, TypImmer, PTL DEF Spec

\* Only its own end takes a known connection out of the map, never the late
\* close of one it has replaced.
LEMMA EigenesEnde ==
  ASSUME Typ, [Next]_vars, NEW k \in koepfe, verb[k].bekannt, k \notin koepfe'
  PROVE  verb'[k].gate # "auf"
<1>0. k \in Verb /\ verb \in [Verb -> Verbindung]
  BY DEF Typ, TypeInv
<1>1. ~Bleibt({})
  BY DEF Bleibt, KoepfeBleiben
<1>2. ASSUME NEW j \in Verb, GateGetrennt(j)
      PROVE  verb'[k].gate # "auf"
  <2>1. k = j
    BY <1>2, GateGetrenntBleibt DEF Bleibt, KoepfeBleiben
  <2>2. verb'[k] = Ohne([verb[k] EXCEPT !.gate = "zu", !.hallo = FALSE])
    BY <1>0, <1>2, <2>1 DEF GateGetrennt
  <2>3. QED
    BY <1>0, <2>2 DEF Ohne, Frei, Verbindung
<1>3. ASSUME NEW j \in Verb, NEW mcp \in BOOLEAN, Hallo(j, mcp)
      PROVE  verb'[k].gate # "auf"
  <2>1. k # j
    BY <1>3 DEF Hallo, Typ, HalloSteht
  <2>2. k \in Unter(verb[j].von, koepfe \ {j})
    BY <1>3, <2>1 DEF Hallo, Ersetzt
  <2>3. verb'[k] = [verb[k] EXCEPT !.gate = "schliesst"]
    BY <1>0, <1>3, <2>1, <2>2, HalloVerb
  <2>4. verb[k] \in Verbindung
    BY <1>0
  <2>5. QED
    BY <2>3, <2>4 DEF Verbindung
<1>4. CASE GatewayNeustart
  <2>1. verb'[k] = Ohne([verb[k] EXCEPT !.gate = "zu", !.hallo = FALSE])
    BY <1>0, <1>4 DEF GatewayNeustart
  <2>2. QED
    BY <1>0, <2>1 DEF Ohne, Frei, Verbindung
<1>5. ASSUME NEW c \in Aufruf,
             \/ Aufrufen(c) \/ AufrufenAlle(c) \/ Ergebnis(c) \/ Zeitablauf(c)
             \/ \E i \in Instanz : AppAnfrage(c, i)
      PROVE  FALSE
  BY <1>5, Aufrufe DEF AufrufSchritt
<1>6. CASE UNCHANGED vars
  BY <1>6 DEF vars
<1>7. QED
  BY <1>1, <1>2, <1>3, <1>4, <1>5, <1>6, KopfSchrittBleibt, StopBleibt, VerbindenBleibt,
     KopfGetrenntBleibt, MarkenBleiben, PingBleibt DEF Next

THEOREM EigenesEndeImmer == Spec => NurMitEigenemEnde
<1>1. Typ /\ [Next]_vars
      => [\A k \in koepfe : verb[k].bekannt /\ k \notin koepfe' => verb'[k].gate # "auf"]_vars
  BY EigenesEnde
<1>2. QED
  BY <1>1, TypImmer, PTL DEF Spec, NurMitEigenemEnde

\* No call waits at a connection that the pings no longer watch.
THEOREM AufrufImmerBeiKopf == Spec => []AufrufNurBeiKopf
<1>1. Sicher => AufrufNurBeiKopf
  BY DEF Sicher, AufrufBeiBekanntem, AufrufNurBeiKopf, Bekannte
<1>2. QED
  BY <1>1, SicherImmer, PTL

\* An AVA that has said hallo does not vanish from the list.
THEOREM ListeImmerVollstaendig == Spec => []ListeVollstaendig
<1>1. Sicher => ListeVollstaendig
  BY DEF Sicher
<1>2. QED
  BY <1>1, SicherImmer, PTL
=============================================================================
