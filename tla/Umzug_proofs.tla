----------------------------- MODULE Umzug_proofs -----------------------------
(***************************************************************************)
(* The invariants of Umzug for any number of AVAs, moves, parts and faults *)
(* and any window: TypeInv, NurGanz and OhneLuecke from IInv, and with it, *)
(* phase by phase of a single move, NieVerklemmt (NInv).                   *)
(***************************************************************************)
EXTENDS Umzug, SequenceTheorems, TLAPS

\* Ids, and the numbers of parts, are bounded numbers.
USE ZahlenAssumption, GrenzenAssumption DEF Id, NachrichtTyp

\* A message: one that says how many parts there are says it rightly, a part is
\* one of them, one that asks for a move names it.
Gute == {m \in NachrichtTyp :
            /\ m.art = "umzug-ende" => m.n = Teile
            /\ m.art = "umzug-teil" => m.n < Teile
            /\ m.art = "umzug-bitte" => m.id # 0}

ZielTyp    == [id : Id, quelle : Instanz \cup {Niemand}, erwartet : 0..Teile, still : BOOLEAN]
LaufTyp    == [id : Id, ziel : Instanz \cup {Niemand}, n : 0..Teile, bestaetigt : 0..Teile,
               abbruch : BOOLEAN]
EingangTyp == [id : Id, teile : Seq(0..Teile), bereit : BOOLEAN]

Anfang(k) == [j \in 1..k |-> j - 1]

Leitungen == auf \in [Instanz -> Seq(Gute)] /\ ab \in [Instanz -> Seq(Gute)]

\* A run of the source is to an AVA.
Quelle == /\ lauf \in [Instanz -> LaufTyp] /\ naechste \in 1..MaxUmzuege + 1
          /\ \A i \in Instanz : lauf[i].id # 0 => lauf[i].ziel \in Instanz

\* What is known of target and inbox of one AVA.
Passt(z, e) ==
    /\ z \in ZielTyp /\ e \in EingangTyp
    /\ z.id = 0 => z.quelle = Niemand
    /\ z.id # 0 => e.teile = Anfang(z.erwartet) /\ ~e.bereit
    /\ e.bereit => e.teile = Anfang(Teile)

Ziele == /\ ziel \in [Instanz -> ZielTyp] /\ eingang \in [Instanz -> EingangTyp]
         /\ \A i \in Instanz : Passt(ziel[i], eingang[i])

IInv == Leitungen /\ Quelle /\ Ziele

-----------------------------------------------------------------------------
(* Lemmas about messages and about target and inbox. *)

LEMMA NeueNachricht ==
  ASSUME NEW a \in Art, NEW g \in Instanz, NEW id \in Id, NEW n \in 0..Teile,
         a = "umzug-ende" => n = Teile, a = "umzug-teil" => n < Teile, a = "umzug-bitte" => id # 0
  PROVE  Nachricht(a, g, id, n) \in Gute
  BY DEF Nachricht, Gute, NachrichtTyp

LEMMA AnfangIstFolge ==
  ASSUME NEW k \in Nat
  PROVE  Anfang(k) \in Seq(Nat) /\ Append(Anfang(k), k) = Anfang(k + 1)
<1>1. Anfang(k) \in Seq(Nat) /\ Len(Anfang(k)) = k /\ Anfang(k + 1) \in Seq(Nat) /\ Len(Anfang(k + 1)) = k + 1
  BY DEF Anfang
<1>2. Append(Anfang(k), k) \in Seq(Nat) /\ Len(Append(Anfang(k), k)) = k + 1
  BY <1>1
<1>3. ASSUME NEW j \in 1..k + 1
      PROVE  Append(Anfang(k), k)[j] = Anfang(k + 1)[j]
  BY <1>1 DEF Anfang
<1>4. QED
  BY <1>1, <1>2, <1>3

\* Lines stay good when good messages are sent.
LEMMA SendeSchritt ==
  ASSUME Leitungen, NEW i \in Instanz, NEW m \in Gute, Sende(i, m)
  PROVE  auf' \in [Instanz -> Seq(Gute)]
  BY DEF Leitungen, Sende

LEMMA KeinsPasst ==
  ASSUME NEW e \in EingangTyp, e.bereit => e.teile = Anfang(Teile)
  PROVE  Passt(KeinZiel, e) /\ Passt(KeinZiel, KeinEingang)
<1>1. KeinZiel \in ZielTyp /\ KeinEingang \in EingangTyp
  BY DEF KeinZiel, KeinEingang, ZielTyp, EingangTyp
<1>2. QED
  BY <1>1 DEF Passt, KeinZiel, KeinEingang

\* A step that changes target and inbox of one AVA.
LEMMA ZielSchritt ==
  ASSUME Ziele, NEW i \in Instanz, NEW z, NEW e, Passt(z, e),
         ziel' = [ziel EXCEPT ![i] = z], eingang' = [eingang EXCEPT ![i] = e]
  PROVE  Ziele'
<1>1. ziel' \in [Instanz -> ZielTyp] /\ eingang' \in [Instanz -> EingangTyp]
  BY DEF Ziele, Passt
<1>2. ASSUME NEW j \in Instanz
      PROVE  Passt(ziel[j], eingang[j])'
  <2>1. CASE j = i
    <3>1. ziel'[j] = z /\ eingang'[j] = e
      BY <2>1 DEF Ziele
    <3>2. QED
      BY <3>1 DEF Passt
  <2>2. CASE j # i
    <3>1. ziel'[j] = ziel[j] /\ eingang'[j] = eingang[j]
      BY <2>2 DEF Ziele
    <3>2. QED
      BY <3>1 DEF Ziele, Passt
  <2>3. QED
    BY <2>1, <2>2
<1>3. QED
  BY <1>1, <1>2 DEF Ziele

LEMMA AbbrechenSchritt ==
  ASSUME Ziele, NEW i \in Instanz, AbbrechenZiel(i)
  PROVE  Ziele'
<1> DEFINE e == IF ziel[i].id # 0 THEN KeinEingang ELSE eingang[i]
<1>1. Passt(KeinZiel, e)
  BY KeinsPasst DEF Ziele, Passt
<1>2. ziel' = [ziel EXCEPT ![i] = KeinZiel] /\ eingang' = [eingang EXCEPT ![i] = e]
  BY DEF AbbrechenZiel, Ziele
<1>3. QED
  BY <1>1, <1>2, ZielSchritt

LEMMA AnlegenSchritt ==
  ASSUME Ziele, Leitungen, NEW i \in Instanz, NEW q \in Instanz, NEW id \in Id \ {0}, ZielAnlegen(i, q, id)
  PROVE  Ziele' /\ auf' \in [Instanz -> Seq(Gute)]
<1> DEFINE z == [id |-> id, quelle |-> q, erwartet |-> 0, still |-> TRUE]
           e == [id |-> id, teile |-> <<>>, bereit |-> FALSE]
<1>1. Passt(z, e)
  <2>1. z \in ZielTyp /\ e \in EingangTyp
    BY DEF ZielTyp, EingangTyp
  <2>2. Anfang(0) = <<>>
    BY AnfangIstFolge DEF Anfang
  <2>3. z.id = 0 => z.quelle = Niemand
    PROOF OBVIOUS
  <2>4. QED
    BY <2>1, <2>2, <2>3 DEF Passt
<1>2. Ziele'
  BY <1>1, ZielSchritt DEF ZielAnlegen
<1>3. Nachricht("umzug-start", q, id, 0) \in Gute
  BY NeueNachricht DEF Art
<1>4. auf' \in [Instanz -> Seq(Gute)]
  BY <1>3 DEF ZielAnlegen, Sende, Leitungen
<1>5. QED
  BY <1>2, <1>4

-----------------------------------------------------------------------------
(* The actions. *)

LEMMA IInvInit == Init => IInv
<1> SUFFICES ASSUME Init PROVE IInv
  OBVIOUS
<1>1. Leitungen
  BY DEF Init, Leitungen
<1>2. Quelle
  BY DEF Init, Quelle, LaufTyp, KeinLauf
<1>3. \A i \in Instanz : Passt(ziel[i], eingang[i])
  <2>1. KeinEingang \in EingangTyp /\ ~KeinEingang.bereit
    BY DEF KeinEingang, EingangTyp
  <2>2. QED
    BY <2>1, KeinsPasst DEF Init
<1>4. Ziele
  BY <1>3 DEF Ziele, Init, Passt
<1>5. QED
  BY <1>1, <1>2, <1>4 DEF IInv

LEMMA RufSchritt ==
  ASSUME IInv, NEW i \in Instanz, NEW j \in Instanz, Holen(i, j) \/ Senden(i, j)
  PROVE  IInv'
<1>1. CASE Holen(i, j)
  <2>1. Ziele' /\ auf' \in [Instanz -> Seq(Gute)]
    BY <1>1, AnlegenSchritt DEF Holen, IInv, Quelle
  <2>2. QED
    BY <1>1, <2>1 DEF Holen, IInv, Leitungen, Quelle
<1>2. CASE Senden(i, j)
  <2>1. Nachricht("umzug-bitte", j, naechste, 0) \in Gute
    <3>1. naechste \in Id /\ naechste # 0
      BY <1>2 DEF Senden, IInv, Quelle
    <3>2. QED
      BY <3>1, NeueNachricht DEF Art
  <2>2. Leitungen'
    BY <1>2, <2>1 DEF Senden, Sende, IInv, Leitungen
  <2>3. QED
    BY <1>2, <2>2 DEF Senden, IInv, Quelle, Ziele, Passt
<1>3. QED
  BY <1>1, <1>2

LEMMA QuellenSchritt ==
  ASSUME IInv, NEW i \in Instanz, TeilSenden(i) \/ LaufBricht(i) \/ EndeSenden(i)
  PROVE  IInv'
<1>1. CASE TeilSenden(i)
  <2>1. lauf[i] \in LaufTyp /\ lauf[i].ziel \in Instanz
    BY <1>1 DEF TeilSenden, IInv, Quelle
  <2>n. lauf[i].n \in 0..Teile /\ lauf[i].n < Teile
    BY <1>1, <2>1 DEF TeilSenden, Frei, LaufTyp
  <2>2. Nachricht("umzug-teil", lauf[i].ziel, lauf[i].id, lauf[i].n) \in Gute
    BY <2>1, <2>n, NeueNachricht DEF Art, LaufTyp
  <2>3. Leitungen'
    BY <1>1, <2>2 DEF TeilSenden, Sende, IInv, Leitungen
  <2>4. Quelle'
    <3>1. lauf' = [lauf EXCEPT ![i] = [lauf[i] EXCEPT !.n = lauf[i].n + 1]] /\ naechste' = naechste
      BY <1>1 DEF TeilSenden, rest
    <3>2. [lauf[i] EXCEPT !.n = lauf[i].n + 1] \in LaufTyp
      BY <2>1, <2>n DEF LaufTyp
    <3>3. QED
      BY <2>1, <3>1, <3>2 DEF IInv, Quelle
  <2>5. QED
    BY <1>1, <2>3, <2>4 DEF TeilSenden, IInv, Ziele, Passt
<1>2. ASSUME lauf[i].id # 0, lauf' = [lauf EXCEPT ![i] = KeinLauf],
             UNCHANGED <<verbunden, ab, ziel, eingang, neustart, rest>>,
             auf' \in [Instanz -> Seq(Gute)]
      PROVE  IInv'
  <2>1. KeinLauf \in LaufTyp /\ KeinLauf.id = 0
    BY DEF KeinLauf, LaufTyp
  <2>2. Quelle'
    BY <1>2, <2>1 DEF IInv, Quelle, rest
  <2>3. Leitungen' /\ Ziele'
    BY <1>2 DEF IInv, Leitungen, Ziele, Passt
  <2>4. QED
    BY <2>2, <2>3 DEF IInv
<1>3. CASE LaufBricht(i)
  <2>1. lauf[i] \in LaufTyp /\ lauf[i].ziel \in Instanz
    BY <1>3 DEF LaufBricht, IInv, Quelle
  <2>2. Nachricht("umzug-abbruch", lauf[i].ziel, lauf[i].id, 0) \in Gute
    BY <2>1, NeueNachricht DEF Art, LaufTyp
  <2>3. auf' \in [Instanz -> Seq(Gute)]
    BY <1>3, <2>2, SendeSchritt DEF LaufBricht, IInv, Leitungen
  <2>4. QED
    BY <1>2, <1>3, <2>3 DEF LaufBricht
<1>4. CASE EndeSenden(i)
  <2>1. lauf[i] \in LaufTyp /\ lauf[i].ziel \in Instanz
    BY <1>4 DEF EndeSenden, IInv, Quelle
  <2>2. Nachricht("umzug-ende", lauf[i].ziel, lauf[i].id, lauf[i].n) \in Gute
    BY <1>4, <2>1, NeueNachricht DEF EndeSenden, Art, LaufTyp
  <2>3. auf' \in [Instanz -> Seq(Gute)]
    BY <1>4, <2>2, SendeSchritt DEF EndeSenden, IInv, Leitungen
  <2>4. QED
    BY <1>2, <1>4, <2>3 DEF EndeSenden
<1>5. QED
  BY <1>1, <1>3, <1>4

\* The target throws.
LEMMA WirftSchritt ==
  ASSUME IInv, NEW i \in Instanz, NEW m \in Gute, ZielWirft(i, m)
  PROVE  Ziele' /\ auf' \in [Instanz -> Seq(Gute)]
<1>1. Nachricht("umzug-abbruch", m.gegen, m.id, 0) \in Gute
  <2>1. m.gegen \in Instanz /\ m.id \in Id
    BY DEF Gute
  <2>2. QED
    BY <2>1, NeueNachricht DEF Art
<1>2. QED
  BY <1>1, SendeSchritt, AbbrechenSchritt DEF ZielWirft, IInv

LEMMA TeilSchritt ==
  ASSUME IInv, NEW i \in Instanz, NEW m \in Gute, BeiTeil(i, m)
  PROVE  Ziele' /\ auf' \in [Instanz -> Seq(Gute)]
<1>1. CASE ZielWirft(i, m)
  BY <1>1, WirftSchritt
<1>2. CASE /\ InReihe(i, m)
           /\ eingang' = [eingang EXCEPT ![i].teile = Append(@, m.n)]
           /\ ziel' = [ziel EXCEPT ![i] = [id |-> m.id, quelle |-> m.gegen, erwartet |-> m.n + 1, still |-> TRUE]]
           /\ Sende(i, Nachricht("umzug-ack", m.gegen, m.id, m.n + 1))
  <2> DEFINE e == [eingang[i] EXCEPT !.teile = Append(eingang[i].teile, m.n)]
             z == [id |-> m.id, quelle |-> m.gegen, erwartet |-> m.n + 1, still |-> TRUE]
  <2>1. /\ ziel[i] \in ZielTyp /\ eingang[i] \in EingangTyp /\ m.n \in 0..Teile - 1 /\ m.gegen \in Instanz
        /\ m.id \in Id /\ Passt(ziel[i], eingang[i])
    <3>1. m.n \in 0..Teile - 1 /\ m.gegen \in Instanz /\ m.id \in Id
      BY DEF Gute, BeiTeil
    <3>2. QED
      BY <3>1 DEF IInv, Ziele
  <2>2. ziel[i].id # 0 /\ m.n = ziel[i].erwartet
    BY <1>2, <2>1, NiemandAssumption DEF BeiTeil, Erwartet, InReihe, Passt
  <2>3. z \in ZielTyp
    BY <2>1 DEF ZielTyp
  <2>4. e \in EingangTyp
    <3>1. Append(eingang[i].teile, m.n) \in Seq(0..Teile)
      BY <2>1 DEF EingangTyp
    <3>2. QED
      BY <2>1, <3>1 DEF EingangTyp
  <2>5. e.teile = Anfang(z.erwartet) /\ ~e.bereit
    <3>1. e.teile = Append(eingang[i].teile, m.n) /\ e.bereit = eingang[i].bereit
      BY <2>1 DEF EingangTyp
    <3>2. QED
      <4>1. z.erwartet = m.n + 1 /\ m.n \in Nat /\ eingang[i].teile = Anfang(m.n) /\ ~eingang[i].bereit
        BY <2>1, <2>2 DEF Passt
      <4>2. QED
        BY <3>1, <4>1, AnfangIstFolge
  <2>6. Passt(z, e)
    <3>1. z.id # 0
      BY <2>1, <2>2, NiemandAssumption DEF BeiTeil, Erwartet
    <3> HIDE DEF z, e
    <3>2. QED
      BY <2>3, <2>4, <2>5, <3>1 DEF Passt
  <2>7. ziel' = [ziel EXCEPT ![i] = z] /\ eingang' = [eingang EXCEPT ![i] = e]
    BY <1>2
  <2>8. Ziele'
    BY <2>6, <2>7, ZielSchritt DEF IInv
  <2>9. Nachricht("umzug-ack", m.gegen, m.id, m.n + 1) \in Gute
    BY <2>1, NeueNachricht DEF Art, ZielTyp
  <2>10. QED
    BY <1>2, <2>8, <2>9, SendeSchritt DEF IInv
<1>3. QED
  BY <1>1, <1>2 DEF BeiTeil

LEMMA EndeSchritt ==
  ASSUME IInv, NEW i \in Instanz, NEW m \in Gute, BeiEnde(i, m)
  PROVE  Ziele' /\ auf' \in [Instanz -> Seq(Gute)]
<1>1. CASE ZielWirft(i, m)
  BY <1>1, WirftSchritt
<1>2. CASE /\ Vollstaendig(i, m)
           /\ eingang' = [eingang EXCEPT ![i].bereit = TRUE]
           /\ ziel' = [ziel EXCEPT ![i] = KeinZiel]
           /\ UNCHANGED auf
  <2> DEFINE e == [eingang[i] EXCEPT !.bereit = TRUE]
  <2>1. eingang[i] \in EingangTyp /\ m.n = Teile
    BY DEF IInv, Ziele, Gute, BeiEnde
  <2>2. e \in EingangTyp /\ e.teile = eingang[i].teile
    BY <2>1 DEF EingangTyp
  <2>a. e.teile = Anfang(Teile)
    BY <1>2, <2>1, <2>2 DEF Vollstaendig, Anfang
  <2>3. Passt(KeinZiel, e)
    BY <2>2, <2>a, KeinsPasst
  <2>4. eingang' = [eingang EXCEPT ![i] = e]
    BY <1>2
  <2>5. Ziele'
    BY <1>2, <2>3, <2>4, ZielSchritt DEF IInv
  <2>6. QED
    BY <1>2, <2>5 DEF IInv, Leitungen
<1>3. QED
  BY <1>1, <1>2 DEF BeiEnde

\* What a handler does to the run of the source.
LEMMA LaufSchritt ==
  ASSUME Quelle, NEW i \in Instanz, NEW l \in LaufTyp, lauf' = [lauf EXCEPT ![i] = l],
         l.id # 0 => l.ziel \in Instanz, naechste' = naechste
  PROVE  Quelle'
  BY DEF Quelle

LEMMA HandlerSchritt ==
  ASSUME IInv, NEW i \in Instanz, NEW m \in Gute, naechste' = naechste,
         \/ BeiFehler(i, m) \/ BeiBitte(i, m) \/ BeiAbgelehnt(i, m) \/ BeiStart(i, m) \/ BeiAck(i, m)
         \/ BeiAbbruch(i, m) \/ BeiTeil(i, m) \/ BeiEnde(i, m) \/ BeiFremdem(i, m)
  PROVE  Quelle' /\ Ziele' /\ auf' \in [Instanz -> Seq(Gute)]
<1> USE DEF IInv
<1>a. lauf[i] \in LaufTyp /\ (lauf[i].id # 0 => lauf[i].ziel \in Instanz)
  BY DEF Quelle
<1>m. m.gegen \in Instanz /\ m.id \in Id /\ m.n \in 0..Teile
  BY DEF Gute
<1>z. ASSUME UNCHANGED <<ziel, eingang>> PROVE Ziele'
  BY <1>z DEF Ziele, Passt
<1>l. ASSUME UNCHANGED lauf PROVE Quelle'
  BY <1>l DEF Quelle
<1>f. ASSUME UNCHANGED auf PROVE auf' \in [Instanz -> Seq(Gute)]
  BY <1>f DEF Leitungen
<1>1. CASE BeiFehler(i, m)
  <2>1. Ziele'
    BY <1>1, <1>z, AbbrechenSchritt DEF BeiFehler
  <2>2. Quelle'
    <3> DEFINE b == (lauf[i].abbruch \/ (lauf[i].id # 0 /\ m.gegen = lauf[i].ziel))
    <3>1. b \in BOOLEAN
      OBVIOUS
    <3>2. lauf' = [lauf EXCEPT ![i].abbruch = b]
      BY <1>1 DEF BeiFehler
    <3> HIDE DEF b
    <3>3. [lauf[i] EXCEPT !.abbruch = b] \in LaufTyp
      BY <1>a, <3>1 DEF LaufTyp
    <3>4. [lauf[i] EXCEPT !.abbruch = b].id = lauf[i].id /\ [lauf[i] EXCEPT !.abbruch = b].ziel = lauf[i].ziel
      BY <1>a DEF LaufTyp
    <3>5. lauf' = [lauf EXCEPT ![i] = [lauf[i] EXCEPT !.abbruch = b]]
      BY <3>2
    <3>6. QED
      BY <1>a, <3>3, <3>4, <3>5, LaufSchritt
  <2>3. QED
    BY <1>1, <1>f, <2>1, <2>2 DEF BeiFehler
<1>2. CASE BeiBitte(i, m)
  <2>1. CASE Sende(i, Nachricht("umzug-abgelehnt", m.gegen, 0, 0)) /\ UNCHANGED <<ziel, eingang>>
    <3>1. Nachricht("umzug-abgelehnt", m.gegen, 0, 0) \in Gute
      BY <1>m, NeueNachricht DEF Art
    <3>2. QED
      BY <1>2, <1>z, <1>l, <2>1, <3>1, SendeSchritt DEF BeiBitte
  <2>2. CASE ZielAnlegen(i, m.gegen, m.id)
    <3>1. m.id \in Id \ {0}
      BY <1>2, <1>m DEF BeiBitte, Gute
    <3>2. QED
      BY <1>2, <1>m, <1>l, <2>2, <3>1, AnlegenSchritt DEF BeiBitte
  <2>3. QED
    BY <1>2, <2>1, <2>2 DEF BeiBitte
<1>3. CASE BeiAbgelehnt(i, m)
  BY <1>3, <1>z, <1>l, <1>f DEF BeiAbgelehnt
<1>4. CASE BeiStart(i, m)
  <2>1. CASE lauf[i].id # 0
    <3>1. Nachricht("umzug-abbruch", m.gegen, m.id, 0) \in Gute
      BY <1>m, NeueNachricht DEF Art
    <3>2. QED
      BY <1>4, <1>z, <1>l, <2>1, <3>1, SendeSchritt DEF BeiStart
  <2>2. CASE lauf[i].id = 0
    <3> DEFINE l == [id |-> m.id, ziel |-> m.gegen, n |-> 0, bestaetigt |-> 0, abbruch |-> FALSE]
    <3>1. l \in LaufTyp /\ l.ziel \in Instanz
      BY <1>m DEF LaufTyp
    <3>2. Quelle'
      BY <1>4, <2>2, <3>1, LaufSchritt DEF BeiStart
    <3>3. QED
      BY <1>4, <1>z, <1>f, <2>2, <3>2 DEF BeiStart
  <2>3. QED
    BY <2>1, <2>2
<1>5. CASE BeiAck(i, m)
  <2> DEFINE b == IF m.id = lauf[i].id THEN Bestaetigt(lauf[i].bestaetigt, m.n) ELSE lauf[i].bestaetigt
  <2>1. b \in 0..Teile
    BY <1>a, <1>m DEF Bestaetigt, LaufTyp
  <2> HIDE DEF b
  <2>2. [lauf[i] EXCEPT !.bestaetigt = b] \in LaufTyp
    BY <1>a, <2>1 DEF LaufTyp
  <2>b. [lauf[i] EXCEPT !.bestaetigt = b].id = lauf[i].id /\ [lauf[i] EXCEPT !.bestaetigt = b].ziel = lauf[i].ziel
    BY <1>a DEF LaufTyp
  <2>3. lauf' = [lauf EXCEPT ![i] = [lauf[i] EXCEPT !.bestaetigt = b]]
    BY <1>5 DEF BeiAck, b
  <2>4. Quelle'
    BY <1>a, <2>2, <2>b, <2>3, LaufSchritt
  <2>5. QED
    BY <1>5, <1>z, <1>f, <2>4 DEF BeiAck
<1>6. CASE BeiAbbruch(i, m)
  <2>1. Ziele'
    BY <1>6, <1>z, AbbrechenSchritt DEF BeiAbbruch
  <2>2. Quelle'
    <3> DEFINE b == (lauf[i].abbruch \/ m.id = lauf[i].id)
    <3>1. b \in BOOLEAN
      OBVIOUS
    <3>2. lauf' = [lauf EXCEPT ![i].abbruch = b]
      BY <1>6 DEF BeiAbbruch
    <3> HIDE DEF b
    <3>3. [lauf[i] EXCEPT !.abbruch = b] \in LaufTyp
      BY <1>a, <3>1 DEF LaufTyp
    <3>4. [lauf[i] EXCEPT !.abbruch = b].id = lauf[i].id /\ [lauf[i] EXCEPT !.abbruch = b].ziel = lauf[i].ziel
      BY <1>a DEF LaufTyp
    <3>5. lauf' = [lauf EXCEPT ![i] = [lauf[i] EXCEPT !.abbruch = b]]
      BY <3>2
    <3>6. QED
      BY <1>a, <3>3, <3>4, <3>5, LaufSchritt
  <2>3. QED
    BY <1>6, <1>f, <2>1, <2>2 DEF BeiAbbruch
<1>7. CASE BeiTeil(i, m)
  BY <1>7, <1>l, TeilSchritt DEF BeiTeil
<1>8. CASE BeiEnde(i, m)
  BY <1>8, <1>l, EndeSchritt DEF BeiEnde
<1>9. CASE BeiFremdem(i, m)
  BY <1>9, <1>z, <1>l, <1>f DEF BeiFremdem
<1>10. QED
  BY <1>1, <1>2, <1>3, <1>4, <1>5, <1>6, <1>7, <1>8, <1>9

LEMMA EmpfangeSchritt ==
  ASSUME IInv, NEW i \in Instanz, Empfange(i)
  PROVE  IInv'
<1>1. Head(ab[i]) \in Gute /\ ab' \in [Instanz -> Seq(Gute)]
  <2>1. ab[i] \in Seq(Gute) /\ ab[i] # <<>>
    BY DEF Empfange, IInv, Leitungen
  <2>2. Head(ab[i]) \in Gute /\ Tail(ab[i]) \in Seq(Gute)
    BY <2>1
  <2>3. QED
    BY <2>2 DEF Empfange, IInv, Leitungen
<1>2. Quelle' /\ Ziele' /\ auf' \in [Instanz -> Seq(Gute)]
  BY <1>1, HandlerSchritt DEF Empfange
<1>3. QED
  BY <1>1, <1>2 DEF IInv, Leitungen

LEMMA WeiterleitenSchritt ==
  ASSUME IInv, NEW i \in Instanz, Weiterleiten(i)
  PROVE  IInv'
<1> DEFINE m == Head(auf[i])
<1>1. m \in Gute /\ auf' \in [Instanz -> Seq(Gute)]
  <2>1. auf[i] \in Seq(Gute) /\ auf[i] # <<>>
    BY DEF Weiterleiten, IInv, Leitungen
  <2>2. Head(auf[i]) \in Gute /\ Tail(auf[i]) \in Seq(Gute)
    BY <2>1
  <2>3. QED
    BY <2>2 DEF Weiterleiten, IInv, Leitungen
<1>2. ab' \in [Instanz -> Seq(Gute)]
  <2>1. Nachricht(m.art, i, m.id, m.n) \in Gute
    <3>1. m.art \in Art /\ m.id \in Id /\ m.n \in 0..Teile
      BY <1>1 DEF Gute
    <3>2. QED
      BY <1>1, <3>1, NeueNachricht DEF Gute
  <2>2. Nachricht("fehler", m.gegen, 0, 0) \in Gute
    <3>1. m.gegen \in Instanz
      BY <1>1 DEF Gute
    <3>2. QED
      BY <3>1, NeueNachricht DEF Art
  <2>3. m.gegen \in Instanz /\ ab \in [Instanz -> Seq(Gute)]
    BY <1>1 DEF Gute, IInv, Leitungen
  <2>4. CASE ab' = [ab EXCEPT ![m.gegen] = Append(@, Nachricht(m.art, i, m.id, m.n))]
    BY <2>1, <2>3, <2>4
  <2>5. CASE ab' = [ab EXCEPT ![i] = Append(@, Nachricht("fehler", m.gegen, 0, 0))]
    BY <2>2, <2>3, <2>5
  <2>6. CASE UNCHANGED ab
    BY <2>3, <2>6
  <2>7. QED
    BY <2>4, <2>5, <2>6 DEF Weiterleiten
<1>3. Quelle' /\ Ziele'
  BY DEF Weiterleiten, IInv, Quelle, Ziele, Passt, rest
<1>4. QED
  BY <1>1, <1>2, <1>3 DEF IInv, Leitungen

LEMMA StartetSchritt ==
  ASSUME IInv, NEW i \in Instanz, Startet(i), naechste' = naechste
  PROVE  IInv'
<1>1. Leitungen'
  BY DEF Startet, Getrennt, IInv, Leitungen
<1>2. Quelle'
  BY DEF Startet, IInv, Quelle, KeinLauf, LaufTyp
<1>3. Ziele'
  <2> DEFINE e == IF eingang[i].bereit THEN KeinEingang ELSE eingang[i]
  <2>1. Passt(KeinZiel, e)
    BY KeinsPasst DEF IInv, Ziele, Passt
  <2>2. ziel' = [ziel EXCEPT ![i] = KeinZiel] /\ eingang' = [eingang EXCEPT ![i] = e]
    BY DEF Startet, IInv, Ziele
  <2>3. QED
    BY <2>1, <2>2, ZielSchritt DEF IInv
<1>4. QED
  BY <1>1, <1>2, <1>3 DEF IInv

LEMMA LebenSchritt ==
  ASSUME IInv, NEW i \in Instanz,
         \/ HolenOhneRelais(i) \/ Stille(i) \/ AlteStille(i) \/ Reisst(i) \/ Verbinden(i)
         \/ Neustart(i) \/ Absturz(i)
  PROVE  IInv'
<1>1. CASE HolenOhneRelais(i)
  <2>a. KeinEingang \in EingangTyp /\ ~KeinEingang.bereit
    BY DEF KeinEingang, EingangTyp
  <2>1. Passt(KeinZiel, KeinEingang)
    BY <2>a, KeinsPasst
  <2>2. Ziele'
    BY <1>1, <2>1, ZielSchritt DEF HolenOhneRelais, IInv
  <2>3. QED
    BY <1>1, <2>2 DEF HolenOhneRelais, IInv, Leitungen, Quelle, rest
<1>2. CASE Stille(i) \/ AlteStille(i)
  <2>1. Ziele'
    BY <1>2, AbbrechenSchritt DEF Stille, AlteStille, IInv
  <2>2. QED
    BY <1>2, <2>1 DEF Stille, AlteStille, IInv, Leitungen, Quelle
<1>3. CASE Reisst(i)
  BY <1>3 DEF Reisst, Getrennt, IInv, Leitungen, Quelle, Ziele, Passt
<1>4. CASE Verbinden(i)
  BY <1>4 DEF Verbinden, IInv, Leitungen, Quelle, Ziele, Passt, rest
<1>5. CASE Neustart(i)
  BY <1>5, StartetSchritt DEF Neustart, rest
<1>6. CASE Absturz(i)
  BY <1>6, StartetSchritt DEF Absturz
<1>7. QED
  BY <1>1, <1>2, <1>3, <1>4, <1>5, <1>6

LEMMA IInvNext == IInv /\ [Next]_vars => IInv'
<1> SUFFICES ASSUME IInv, [Next]_vars PROVE IInv'
  OBVIOUS
<1>1. ASSUME NEW i \in Instanz, NEW j \in Instanz, Holen(i, j) \/ Senden(i, j)
      PROVE  IInv'
  BY <1>1, RufSchritt
<1>2. ASSUME NEW i \in Instanz, TeilSenden(i) \/ LaufBricht(i) \/ EndeSenden(i)
      PROVE  IInv'
  BY <1>2, QuellenSchritt
<1>3. ASSUME NEW i \in Instanz, Empfange(i) \/ Weiterleiten(i)
      PROVE  IInv'
  BY <1>3, EmpfangeSchritt, WeiterleitenSchritt
<1>4. ASSUME NEW i \in Instanz,
             \/ HolenOhneRelais(i) \/ Stille(i) \/ AlteStille(i) \/ Reisst(i) \/ Verbinden(i)
             \/ Neustart(i) \/ Absturz(i)
      PROVE  IInv'
  BY <1>4, LebenSchritt
<1>5. CASE UNCHANGED vars
  BY <1>5 DEF vars, rest, IInv, Leitungen, Quelle, Ziele, Passt
<1>6. QED
  BY <1>1, <1>2, <1>3, <1>4, <1>5 DEF Next

-----------------------------------------------------------------------------

\* A package is only ever ready as a whole, for any number of parts, any window,
\* and whatever lines and AVAs break.
THEOREM ImmerGanz == Spec => []NurGanz
<1>1. IInv => NurGanz
  BY DEF IInv, Ziele, Passt, Anfang, NurGanz
<1>2. QED
  BY <1>1, IInvInit, IInvNext, PTL DEF Spec

\* What the target has read is a beginning of the package without a gap: the
\* checksum at the end finds nothing that the numbers of the parts let through.
THEOREM ImmerOhneLuecke == Spec => []OhneLuecke
<1>1. IInv => OhneLuecke
  BY DEF IInv, Ziele, Passt, Anfang, OhneLuecke
<1>2. QED
  BY <1>1, IInvInit, IInvNext, PTL DEF Spec

-----------------------------------------------------------------------------
(* The variables IInv does not speak of. *)

Uebriges ==
    /\ verbunden \in [Instanz -> BOOLEAN] /\ neustart \in [Instanz -> BOOLEAN]
    /\ uhr \in [Instanz -> BOOLEAN] /\ stand \in [Instanz -> UmzugPhase]
    /\ stille \in 0..MaxStille /\ risse \in 0..MaxRisse

LEMMA UebrigesInit == Init => Uebriges
  BY DEF Init, Uebriges, UmzugPhase

LEMMA UebrigesNext == Uebriges /\ [Next]_vars => Uebriges'
<1> SUFFICES ASSUME Uebriges, [Next]_vars PROVE Uebriges'
  OBVIOUS
<1> USE DEF Uebriges, UmzugPhase, rest
<1>1. ASSUME NEW i \in Instanz, NEW j \in Instanz, Holen(i, j) \/ Senden(i, j)
      PROVE  Uebriges'
  BY <1>1 DEF Holen, Senden, ZielAnlegen, UhrLassen
<1>2. ASSUME NEW i \in Instanz, HolenOhneRelais(i) \/ TeilSenden(i) \/ LaufBricht(i) \/ EndeSenden(i)
      PROVE  Uebriges'
  BY <1>2 DEF HolenOhneRelais, UhrLassen, TeilSenden, LaufBricht, EndeSenden
<1>3. ASSUME NEW i \in Instanz, Empfange(i)
      PROVE  Uebriges'
  <2> DEFINE m == Head(ab[i])
  <2>1. verbunden' = verbunden /\ stille' = stille
    BY <1>3 DEF Empfange
  <2>2. CASE BeiFehler(i, m) \/ BeiBitte(i, m) \/ BeiAbgelehnt(i, m)
    BY <2>1, <2>2 DEF BeiFehler, BeiBitte, BeiAbgelehnt, ZielAnlegen, UhrLassen, AbbrechenZiel
  <2>3. CASE BeiStart(i, m) \/ BeiAck(i, m) \/ BeiAbbruch(i, m) \/ BeiFremdem(i, m)
    BY <2>1, <2>3 DEF BeiStart, BeiAck, BeiAbbruch, BeiFremdem, AbbrechenZiel
  <2>4. CASE BeiTeil(i, m)
    <3>1. risse' \in 0..MaxRisse
      BY <2>4 DEF BeiTeil
    <3>2. stand' \in [Instanz -> UmzugPhase] /\ UNCHANGED <<neustart, uhr>>
      BY <2>4 DEF BeiTeil, ZielWirft, AbbrechenZiel
    <3>3. QED
      BY <2>1, <3>1, <3>2
  <2>5. CASE BeiEnde(i, m)
    <3>1. risse' \in 0..MaxRisse
      BY <2>5 DEF BeiEnde
    <3>2. stand' \in [Instanz -> UmzugPhase] /\ neustart' \in [Instanz -> BOOLEAN] /\ UNCHANGED uhr
      BY <2>5 DEF BeiEnde, ZielWirft, AbbrechenZiel
    <3>3. QED
      BY <2>1, <3>1, <3>2
  <2>6. QED
    BY <1>3, <2>2, <2>3, <2>4, <2>5 DEF Empfange
<1>4. ASSUME NEW i \in Instanz, Stille(i) \/ AlteStille(i) \/ Weiterleiten(i) \/ Reisst(i) \/ Verbinden(i)
      PROVE  Uebriges'
  <2>1. CASE Stille(i) \/ AlteStille(i)
    <3>1. stille' \in 0..MaxStille /\ UNCHANGED <<verbunden, neustart, risse>>
      BY <2>1 DEF Stille, AlteStille
    <3>2. stand' \in [Instanz -> UmzugPhase]
      BY <2>1 DEF Stille, AlteStille, AbbrechenZiel
    <3>3. uhr' = uhr \/ uhr' = [uhr EXCEPT ![i] = FALSE]
      BY <2>1 DEF Stille, AlteStille
    <3>4. uhr' \in [Instanz -> BOOLEAN]
      BY <3>3
    <3>5. QED
      BY <3>1, <3>2, <3>4
  <2>2. CASE Weiterleiten(i)
    BY <2>2 DEF Weiterleiten
  <2>3. CASE Reisst(i)
    BY <2>3 DEF Reisst, Getrennt
  <2>4. CASE Verbinden(i)
    BY <2>4 DEF Verbinden
  <2>5. QED
    BY <1>4, <2>1, <2>2, <2>3, <2>4
<1>5. ASSUME NEW i \in Instanz, Neustart(i) \/ Absturz(i)
      PROVE  Uebriges'
  <2>1. Startet(i) /\ stille' = stille /\ risse' \in 0..MaxRisse
    BY <1>5 DEF Neustart, Absturz
  <2>2. QED
    BY <2>1 DEF Startet, Getrennt
<1>6. CASE UNCHANGED vars
  BY <1>6 DEF vars
<1>7. QED
  BY <1>1, <1>2, <1>3, <1>4, <1>5, <1>6 DEF Next

\* Every number on a line or in a state is a number of parts, every id one that
\* a call has given.
THEOREM TypeInvImmer == Spec => []TypeInv
<1>1. IInv /\ Uebriges => TypeInv
  <2> SUFFICES ASSUME IInv, Uebriges PROVE TypeInv
    OBVIOUS
  <2>1. \A i \in Instanz : auf[i] \in Seq(NachrichtTyp) /\ ab[i] \in Seq(NachrichtTyp)
    <3> HIDE DEF NachrichtTyp
    <3>1. Gute \subseteq NachrichtTyp
      BY DEF Gute
    <3>2. QED
      BY <3>1, SeqMonotonic DEF IInv, Leitungen
  <2>2. \A i \in Instanz : /\ eingang[i].id \in Id /\ eingang[i].bereit \in BOOLEAN
                            /\ eingang[i].teile \in Seq(0..Teile)
    BY DEF IInv, Ziele, EingangTyp
  <2>3. QED
    BY <2>1, <2>2 DEF TypeInv, IInv, Uebriges, Quelle, Ziele, ZielTyp, LaufTyp
<1>2. QED
  BY <1>1, IInvInit, IInvNext, UebrigesInit, UebrigesNext, PTL DEF Spec

-----------------------------------------------------------------------------
(* A single move that nothing disturbs, phase by phase. *)

Leer == [i \in Instanz |-> <<>>]

KeinesZiel == \A i \in Instanz : ziel[i].id = 0
KeinerSendet == \A i \in Instanz : lauf[i].id = 0
Verbindung == \A i \in Instanz : verbunden[i] /\ ~neustart[i]

\* t is the only target, s is to send to it.
ZielIst(t, s) == ziel[t].id = 1 /\ ziel[t].quelle = s /\ \A i \in Instanz \ {t} : ziel[i].id = 0

\* s is the only source, it sends to t.
QuelleIst(s, t) ==
    /\ lauf[s].id = 1 /\ lauf[s].ziel = t /\ ~lauf[s].abbruch
    /\ \A i \in Instanz \ {s} : lauf[i].id = 0

NurArten(arten) == \A i \in Instanz : \A m \in Range(auf[i]) \cup Range(ab[i]) : m.art \in arten

\* A message of move 1 is on its way from x to y.
Unterwegs(art, x, y, n) ==
    Nachricht(art, y, 1, n) \in Range(auf[x]) \/ Nachricht(art, x, 1, n) \in Range(ab[y])

\* It is the only message there is.
Einzige(art, x, y) ==
    \/ auf = [Leer EXCEPT ![x] = <<Nachricht(art, y, 1, 0)>>] /\ ab = Leer
    \/ auf = Leer /\ ab = [Leer EXCEPT ![y] = <<Nachricht(art, x, 1, 0)>>]

\* The phases of a move: asked for, announced, under way, sent, over.
Ruhe == auf = Leer /\ ab = Leer /\ KeinesZiel /\ KeinerSendet /\ Verbindung

Gebeten == /\ \E i \in Instanz, z \in Instanz : Einzige("umzug-bitte", i, z)
           /\ KeinesZiel /\ KeinerSendet /\ Verbindung

Gestartet == /\ \E t \in Instanz, s \in Instanz : Einzige("umzug-start", t, s) /\ ZielIst(t, s)
             /\ KeinerSendet /\ Verbindung

\* All that was sent is acknowledged, or the last part, or the answer to it, is on its way.
Fortgang(s, t) ==
    \/ lauf[s].bestaetigt >= lauf[s].n
    \/ Unterwegs("umzug-teil", s, t, lauf[s].n - 1)
    \/ Unterwegs("umzug-ack", t, s, lauf[s].n)

Sendet == /\ \E t \in Instanz, s \in Instanz : ZielIst(t, s) /\ QuelleIst(s, t) /\ Fortgang(s, t)
          /\ NurArten({"umzug-teil", "umzug-ack"}) /\ Verbindung

Gesendet == /\ \E t \in Instanz, s \in Instanz : ZielIst(t, s) /\ Unterwegs("umzug-ende", s, t, Teile)
            /\ KeinerSendet /\ NurArten({"umzug-teil", "umzug-ack", "umzug-ende"}) /\ Verbindung

Vorbei == KeinesZiel /\ NurArten(Art \ {"umzug-bitte"})

EinUmzug ==
    \/ naechste = 1 /\ Ruhe
    \/ naechste = 2 /\ (Gebeten \/ Gestartet \/ Sendet \/ Gesendet \/ Vorbei)

\* A single move that nothing disturbs.
NInv == risse = 0 /\ stille = 0 /\ naechste <= 2 => EinUmzug

LEMMA Anhaengen ==
  ASSUME NEW S, NEW q \in Seq(S), NEW e
  PROVE  Range(Append(q, e)) = Range(q) \cup {e}
<1> DEFINE T == S \cup {e}
<1>a. q \in Seq(T) /\ e \in T
  BY SeqMonotonic
<1> HIDE DEF T
<1>1. /\ Len(Append(q, e)) = Len(q) + 1 /\ Append(q, e)[Len(q) + 1] = e
      /\ \A k \in 1..Len(q) : Append(q, e)[k] = q[k]
      /\ Append(q, e) \in Seq(T) /\ Len(q) \in Nat
  BY <1>a
<1>2. DOMAIN q = 1..Len(q) /\ DOMAIN Append(q, e) = 1..Len(q) + 1
  BY <1>1
<1>3. QED
  BY <1>1, <1>2 DEF Range

LEMMA Abnehmen ==
  ASSUME NEW S, NEW q \in Seq(S), q # <<>>
  PROVE  Head(q) \in S /\ Tail(q) \in Seq(S) /\ Range(q) = Range(Tail(q)) \cup {Head(q)}
<1>1. /\ Len(q) \in Nat \ {0} /\ Tail(q) \in Seq(S) /\ Len(Tail(q)) = Len(q) - 1
      /\ Head(q) = q[1] /\ Head(q) \in S
      /\ \A k \in 1..Len(q) - 1 : Tail(q)[k] = q[k + 1]
  OBVIOUS
<1>2. DOMAIN q = 1..Len(q) /\ DOMAIN Tail(q) = 1..Len(q) - 1
  BY <1>1
<1>3. ASSUME NEW k \in 1..Len(q)
      PROVE  q[k] \in Range(Tail(q)) \cup {Head(q)}
  <2>1. k = 1 \/ (k - 1 \in 1..Len(q) - 1 /\ Tail(q)[k - 1] = q[k])
    BY <1>1
  <2>2. QED
    BY <1>1, <1>2, <2>1 DEF Range
<1>4. Range(q) \subseteq Range(Tail(q)) \cup {Head(q)}
  BY <1>2, <1>3 DEF Range
<1>5. Head(q) \in Range(q)
  BY <1>1, <1>2 DEF Range
<1>6. ASSUME NEW k \in 1..Len(q) - 1
      PROVE  Tail(q)[k] \in Range(q)
  <2>1. k + 1 \in 1..Len(q) /\ Tail(q)[k] = q[k + 1]
    BY <1>1
  <2>2. QED
    BY <1>2, <2>1 DEF Range
<1>7. Range(Tail(q)) \subseteq Range(q)
  BY <1>2, <1>6 DEF Range
<1>8. QED
  BY <1>1, <1>4, <1>5, <1>7

LEMMA LeereFolge == Range(<<>>) = {}
  BY DEF Range

\* What a step does to the lines: messages are added, one is taken off.
LEMMA SendeRange ==
  ASSUME Leitungen, NEW i \in Instanz, NEW m, Sende(i, m)
  PROVE  \A j \in Instanz : Range(auf'[j]) = IF j = i THEN Range(auf[j]) \cup {m} ELSE Range(auf[j])
<1>1. auf[i] \in Seq(Gute) /\ auf'[i] = Append(auf[i], m) /\ \A j \in Instanz \ {i} : auf'[j] = auf[j]
  BY DEF Leitungen, Sende
<1>2. Range(Append(auf[i], m)) = Range(auf[i]) \cup {m}
  BY <1>1, Anhaengen
<1>3. QED
  BY <1>1, <1>2, Zenon

LEMMA EmpfangeRange ==
  ASSUME Leitungen, NEW i \in Instanz, Empfange(i)
  PROVE  /\ Head(ab[i]) \in Gute
         /\ Range(ab[i]) = Range(ab'[i]) \cup {Head(ab[i])}
         /\ \A j \in Instanz \ {i} : ab'[j] = ab[j]
<1>1. ab[i] \in Seq(Gute) /\ ab[i] # <<>> /\ ab'[i] = Tail(ab[i]) /\ \A j \in Instanz \ {i} : ab'[j] = ab[j]
  BY DEF Leitungen, Empfange
<1>2. QED
  BY <1>1, Abnehmen

LEMMA WeiterRange ==
  ASSUME Leitungen, Verbindung, NEW i \in Instanz, Weiterleiten(i), NEW m, m = Head(auf[i])
  PROVE  /\ m \in Gute
         /\ Range(auf[i]) = Range(auf'[i]) \cup {m}
         /\ \A j \in Instanz \ {i} : auf'[j] = auf[j]
         /\ Range(ab'[m.gegen]) = Range(ab[m.gegen]) \cup {Nachricht(m.art, i, m.id, m.n)}
         /\ \A j \in Instanz \ {m.gegen} : ab'[j] = ab[j]
<1>1. auf[i] \in Seq(Gute) /\ auf[i] # <<>> /\ auf'[i] = Tail(auf[i]) /\ \A j \in Instanz \ {i} : auf'[j] = auf[j]
  BY DEF Leitungen, Weiterleiten
<1>2. m \in Gute /\ Range(auf[i]) = Range(auf'[i]) \cup {m}
  BY <1>1, Abnehmen
<1>3. m.gegen \in Instanz /\ ab \in [Instanz -> Seq(Gute)] /\ verbunden[m.gegen]
  BY <1>2 DEF Gute, Leitungen, Verbindung
<1>4. ab' = [ab EXCEPT ![m.gegen] = Append(@, Nachricht(m.art, i, m.id, m.n))]
  BY <1>3 DEF Weiterleiten
<1>5. Nachricht(m.art, i, m.id, m.n) \in Gute
  <2>1. m.art \in Art /\ m.id \in Id /\ m.n \in 0..Teile
    BY <1>2 DEF Gute
  <2>2. QED
    BY <1>2, <2>1, NeueNachricht DEF Gute
<1>6. Range(ab'[m.gegen]) = Range(ab[m.gegen]) \cup {Nachricht(m.art, i, m.id, m.n)}
  BY <1>3, <1>4, <1>5, Anhaengen
<1>7. QED
  BY <1>1, <1>2, <1>3, <1>4, <1>6

\* The gateway passes on what is on its way, and changes no kind.
LEMMA WeiterUnterwegs ==
  ASSUME Leitungen, Verbindung, NEW i \in Instanz, Weiterleiten(i),
         NEW a, NEW x \in Instanz, NEW y \in Instanz, NEW n, Unterwegs(a, x, y, n)
  PROVE  Unterwegs(a, x, y, n)'
<1> DEFINE m == Head(auf[i])
<1>1. /\ m \in Gute
      /\ Range(auf[i]) = Range(auf'[i]) \cup {m}
      /\ \A j \in Instanz \ {i} : auf'[j] = auf[j]
      /\ Range(ab'[m.gegen]) = Range(ab[m.gegen]) \cup {Nachricht(m.art, i, m.id, m.n)}
      /\ \A j \in Instanz \ {m.gegen} : ab'[j] = ab[j]
  BY WeiterRange
<1> HIDE DEF m
<1>2. Range(ab[y]) \subseteq Range(ab'[y])
  BY <1>1
<1>3. CASE x = i /\ m = Nachricht(a, y, 1, n)
  <2>1. m.gegen = y /\ m.art = a /\ m.id = 1 /\ m.n = n
    BY <1>3 DEF Nachricht
  <2>2. QED
    BY <1>1, <1>3, <2>1 DEF Unterwegs
<1>4. CASE ~(x = i /\ m = Nachricht(a, y, 1, n))
  BY <1>1, <1>2, <1>4 DEF Unterwegs
<1>5. QED
  BY <1>3, <1>4

LEMMA WeiterArten ==
  ASSUME Leitungen, Verbindung, NEW i \in Instanz, Weiterleiten(i), NEW A, NurArten(A)
  PROVE  NurArten(A)'
<1> DEFINE m == Head(auf[i])
<1>1. /\ m \in Gute
      /\ Range(auf[i]) = Range(auf'[i]) \cup {m}
      /\ \A j \in Instanz \ {i} : auf'[j] = auf[j]
      /\ Range(ab'[m.gegen]) = Range(ab[m.gegen]) \cup {Nachricht(m.art, i, m.id, m.n)}
      /\ \A j \in Instanz \ {m.gegen} : ab'[j] = ab[j]
  BY WeiterRange
<1> HIDE DEF m
<1>2. m.art \in A
  BY <1>1 DEF NurArten
<1>3. Nachricht(m.art, i, m.id, m.n).art \in A
  BY <1>2 DEF Nachricht
<1>4. QED
  BY <1>1, <1>2, <1>3 DEF NurArten

\* What is received is gone, what is sent is there, the rest is still on its way.
LEMMA EmpfangeUnterwegs ==
  ASSUME Leitungen, NEW i \in Instanz, Empfange(i), auf' = auf \/ \E m : Sende(i, m),
         NEW a, NEW x \in Instanz, NEW y \in Instanz, NEW n, Unterwegs(a, x, y, n)
  PROVE  Unterwegs(a, x, y, n)' \/ (i = y /\ Head(ab[i]) = Nachricht(a, x, 1, n))
<1>1. Range(auf[x]) \subseteq Range(auf'[x])
  BY SendeRange
<1>2. CASE Nachricht(a, y, 1, n) \in Range(auf[x])
  BY <1>1, <1>2 DEF Unterwegs
<1>3. CASE Nachricht(a, x, 1, n) \in Range(ab[y])
  BY <1>3, EmpfangeRange DEF Unterwegs
<1>4. QED
  BY <1>2, <1>3 DEF Unterwegs

LEMMA EmpfangeArten ==
  ASSUME Leitungen, NEW i \in Instanz, Empfange(i), NEW A, NurArten(A),
         auf' = auf \/ \E m : m.art \in A /\ Sende(i, m)
  PROVE  NurArten(A)' /\ Head(ab[i]).art \in A
<1>1. \A j \in Instanz : \A m \in Range(auf'[j]) : m.art \in A
  <2>1. CASE auf' = auf
    BY <2>1 DEF NurArten
  <2>2. ASSUME NEW m, m.art \in A, Sende(i, m)
        PROVE  \A j \in Instanz : \A k \in Range(auf'[j]) : k.art \in A
    <3>1. \A j \in Instanz : Range(auf'[j]) \subseteq Range(auf[j]) \cup {m}
      BY <2>2, SendeRange
    <3>2. \A j \in Instanz : \A k \in Range(auf[j]) : k.art \in A
      BY DEF NurArten
    <3>3. QED
      BY <2>2, <3>1, <3>2
  <2>3. QED
    BY <2>1, <2>2
<1>2. Range(ab[i]) = Range(ab'[i]) \cup {Head(ab[i])} /\ \A j \in Instanz \ {i} : ab'[j] = ab[j]
  BY EmpfangeRange
<1>3. QED
  BY <1>1, <1>2 DEF NurArten

\* Without a fault no line breaks before the target is done: only the source, the
\* lines and the receivers make a step.
LEMMA NurDiese ==
  ASSUME Uebriges, Verbindung, [Next]_vars, stille' = 0, risse' = 0
  PROVE  \/ UNCHANGED vars
         \/ \E i \in Instanz : \/ \E j \in Instanz : Holen(i, j) \/ Senden(i, j)
                              \/ TeilSenden(i) \/ LaufBricht(i) \/ EndeSenden(i)
                              \/ Empfange(i) \/ Weiterleiten(i)
<1>1. risse \in Nat /\ stille \in Nat
  BY DEF Uebriges
<1>2. \A i \in Instanz : ~Stille(i) /\ ~AlteStille(i) /\ ~Reisst(i) /\ ~Absturz(i)
  BY <1>1 DEF Stille, AlteStille, Reisst, Absturz
<1>3. \A i \in Instanz : ~HolenOhneRelais(i) /\ ~Verbinden(i) /\ ~Neustart(i)
  BY DEF Verbindung, HolenOhneRelais, Verbinden, Neustart
<1>4. QED
  BY <1>2, <1>3, Zenon DEF Next

\* The only message there is is passed on, or received.
LEMMA EinzigeWeiter ==
  ASSUME Verbindung, NEW a, NEW x \in Instanz, NEW y \in Instanz, Einzige(a, x, y),
         NEW i \in Instanz, Weiterleiten(i)
  PROVE  Einzige(a, x, y)'
<1> DEFINE m == Nachricht(a, y, 1, 0)
<1>1. auf = [Leer EXCEPT ![x] = <<m>>] /\ ab = Leer /\ i = x
  BY DEF Einzige, Weiterleiten, Leer
<1>2. auf[i] = <<m>> /\ m.gegen = y /\ m.art = a /\ m.id = 1 /\ m.n = 0
  BY <1>1 DEF Leer, Nachricht
<1>3. Head(auf[i]) = m /\ Tail(auf[i]) = <<>>
  BY <1>2
<1> HIDE DEF m
<1>4. ab' = [ab EXCEPT ![y] = Append(@, Nachricht(a, x, 1, 0))] /\ auf' = [auf EXCEPT ![i] = <<>>]
  BY <1>1, <1>2, <1>3 DEF Weiterleiten, Verbindung
<1>5. auf' = Leer
  BY <1>1, <1>4 DEF Leer
<1>6. ab' = [Leer EXCEPT ![y] = <<Nachricht(a, x, 1, 0)>>]
  BY <1>1, <1>4 DEF Leer
<1>7. QED
  BY <1>5, <1>6 DEF Einzige

LEMMA EinzigeEmpfangen ==
  ASSUME NEW a, NEW x \in Instanz, NEW y \in Instanz, Einzige(a, x, y), NEW i \in Instanz, Empfange(i)
  PROVE  i = y /\ Head(ab[i]) = Nachricht(a, x, 1, 0) /\ auf = Leer /\ ab' = Leer
<1>1. auf = Leer /\ ab = [Leer EXCEPT ![y] = <<Nachricht(a, x, 1, 0)>>] /\ i = y
  BY DEF Einzige, Empfange, Leer
<1>2. ab[i] = <<Nachricht(a, x, 1, 0)>>
  BY <1>1 DEF Leer
<1>3. ab' = [ab EXCEPT ![i] = <<>>]
  BY <1>2 DEF Empfange
<1>4. ab' = Leer
  BY <1>1, <1>3 DEF Leer
<1>5. QED
  BY <1>1, <1>2, <1>4

\* What a target is made of, and that nobody else is one.
LEMMA AnlegenGestartet ==
  ASSUME IInv, KeinesZiel, KeinerSendet', Verbindung', NEW t \in Instanz, NEW s \in Instanz,
         auf = Leer, ab' = Leer, ZielAnlegen(t, s, 1)
  PROVE  Gestartet'
<1>1. auf' = [Leer EXCEPT ![t] = <<Nachricht("umzug-start", s, 1, 0)>>]
  BY DEF ZielAnlegen, Sende, Leer
<1>2. Einzige("umzug-start", t, s)'
  BY <1>1 DEF Einzige, Leer
<1>3. ziel'[t] = [id |-> 1, quelle |-> s, erwartet |-> 0, still |-> TRUE] /\ \A i \in Instanz \ {t} : ziel'[i] = ziel[i]
  BY DEF ZielAnlegen, IInv, Ziele
<1>4. ZielIst(t, s)'
  BY <1>3 DEF ZielIst, KeinesZiel
<1>5. QED
  BY <1>2, <1>4 DEF Gestartet

LEMMA RuheSchritt ==
  ASSUME IInv, Ruhe, naechste = 1, NEW i \in Instanz, NEW j \in Instanz, Holen(i, j) \/ Senden(i, j)
  PROVE  naechste' = 2 /\ (Gestartet \/ Gebeten)'
<1>1. CASE Holen(i, j)
  <2>1. KeinerSendet' /\ Verbindung' /\ ab' = Leer
    BY <1>1 DEF Holen, Ruhe, KeinerSendet, Verbindung
  <2>2. QED
    BY <1>1, <2>1, AnlegenGestartet DEF Holen, Ruhe
<1>2. CASE Senden(i, j)
  <2>1. auf' = [Leer EXCEPT ![i] = <<Nachricht("umzug-bitte", j, 1, 0)>>]
    BY <1>2 DEF Senden, Sende, Ruhe, Leer
  <2>2. Einzige("umzug-bitte", i, j)'
    BY <1>2, <2>1 DEF Senden, Ruhe, Einzige, Leer
  <2>3. KeinesZiel' /\ KeinerSendet' /\ Verbindung' /\ naechste' = 2
    BY <1>2 DEF Senden, Ruhe, KeinesZiel, KeinerSendet, Verbindung
  <2>4. QED
    BY <2>2, <2>3 DEF Gebeten
<1>3. QED
  BY <1>1, <1>2

LEMMA WeiterBleibt ==
  ASSUME NEW i \in Instanz, Weiterleiten(i)
  PROVE  UNCHANGED <<verbunden, ziel, lauf, neustart, naechste>>
  BY DEF Weiterleiten, rest

LEMMA GebetenSchritt ==
  ASSUME IInv, Gebeten, NEW i \in Instanz, Weiterleiten(i) \/ Empfange(i)
  PROVE  (Gebeten \/ Gestartet \/ Vorbei)'
<1>1. PICK x \in Instanz, y \in Instanz : Einzige("umzug-bitte", x, y)
  BY DEF Gebeten
<1>2. CASE Weiterleiten(i)
  <2>1. Einzige("umzug-bitte", x, y)'
    BY <1>1, <1>2, EinzigeWeiter DEF Gebeten
  <2>2. QED
    BY <1>2, <2>1, WeiterBleibt DEF Gebeten, KeinesZiel, KeinerSendet, Verbindung
<1>3. CASE Empfange(i)
  <2> DEFINE m == Nachricht("umzug-bitte", x, 1, 0)
  <2>1. i = y /\ Head(ab[i]) = m /\ auf = Leer /\ ab' = Leer
    BY <1>1, <1>3, EinzigeEmpfangen
  <2>2. m.art = "umzug-bitte" /\ m.gegen = x /\ m.id = 1
    BY DEF Nachricht
  <2> HIDE DEF m
  <2>3. BeiBitte(i, m)
    BY <1>3, <2>1, <2>2 DEF Empfange, BeiFehler, BeiAbgelehnt, BeiStart, BeiAck, BeiAbbruch, BeiTeil, BeiEnde, BeiFremdem
  <2>4. KeinerSendet' /\ Verbindung'
    BY <1>3, <2>3 DEF Empfange, BeiBitte, Gebeten, KeinerSendet, Verbindung
  <2>5. CASE Sende(i, Nachricht("umzug-abgelehnt", x, 0, 0)) /\ UNCHANGED ziel
    <3>1. Sende(i, Nachricht("umzug-abgelehnt", x, 0, 0)) /\ KeinesZiel'
      BY <2>5 DEF Gebeten, KeinesZiel
    <3>2. auf' = [Leer EXCEPT ![i] = <<Nachricht("umzug-abgelehnt", x, 0, 0)>>]
      BY <2>1, <3>1 DEF Sende, Leer
    <3>3. \A j \in Instanz : ab'[j] = <<>> /\ auf'[j] \in {<<>>, <<Nachricht("umzug-abgelehnt", x, 0, 0)>>}
      BY <2>1, <3>2 DEF Leer
    <3>4. Range(<<Nachricht("umzug-abgelehnt", x, 0, 0)>>) = {Nachricht("umzug-abgelehnt", x, 0, 0)}
      BY DEF Range
    <3>5. Nachricht("umzug-abgelehnt", x, 0, 0).art = "umzug-abgelehnt"
      BY DEF Nachricht
    <3>6. NurArten(Art \ {"umzug-bitte"})'
      BY <3>3, <3>4, <3>5, LeereFolge DEF NurArten, Art
    <3>7. QED
      BY <3>1, <3>6 DEF Vorbei
  <2>6. CASE ZielAnlegen(i, x, 1)
    BY <2>1, <2>4, <2>6, AnlegenGestartet DEF Gebeten
  <2>7. QED
    BY <2>2, <2>3, <2>5, <2>6 DEF BeiBitte
<1>4. QED
  BY <1>2, <1>3

LEMMA GestartetSchritt ==
  ASSUME IInv, Gestartet, NEW i \in Instanz, Weiterleiten(i) \/ Empfange(i)
  PROVE  (Gestartet \/ Sendet)'
<1>1. PICK t \in Instanz, s \in Instanz : Einzige("umzug-start", t, s) /\ ZielIst(t, s)
  BY DEF Gestartet
<1>2. CASE Weiterleiten(i)
  <2>1. Einzige("umzug-start", t, s)' /\ ZielIst(t, s)'
    BY <1>1, <1>2, EinzigeWeiter, WeiterBleibt DEF Gestartet, ZielIst
  <2>2. QED
    BY <1>2, <2>1, WeiterBleibt DEF Gestartet, KeinerSendet, Verbindung
<1>3. CASE Empfange(i)
  <2> DEFINE m == Nachricht("umzug-start", t, 1, 0)
             l == [id |-> 1, ziel |-> t, n |-> 0, bestaetigt |-> 0, abbruch |-> FALSE]
  <2>1. i = s /\ Head(ab[i]) = m /\ auf = Leer /\ ab' = Leer
    BY <1>1, <1>3, EinzigeEmpfangen
  <2>2. m.art = "umzug-start" /\ m.gegen = t /\ m.id = 1
    BY DEF Nachricht
  <2> HIDE DEF m
  <2>3. BeiStart(i, m)
    BY <1>3, <2>1, <2>2 DEF Empfange, BeiFehler, BeiAbgelehnt, BeiBitte, BeiAck, BeiAbbruch, BeiTeil, BeiEnde, BeiFremdem
  <2>4. lauf' = [lauf EXCEPT ![s] = l] /\ UNCHANGED <<auf, ziel, neustart>>
    BY <2>1, <2>2, <2>3 DEF BeiStart, Gestartet, KeinerSendet
  <2>5. lauf'[s] = l /\ \A j \in Instanz \ {s} : lauf'[j] = lauf[j]
    BY <2>4 DEF IInv, Quelle
  <2>6. QuelleIst(s, t)' /\ Fortgang(s, t)'
    BY <2>5 DEF QuelleIst, Fortgang, Gestartet, KeinerSendet
  <2>7. ZielIst(t, s)' /\ Verbindung'
    BY <1>1, <1>3, <2>4 DEF ZielIst, Empfange, Gestartet, Verbindung
  <2>8. NurArten({"umzug-teil", "umzug-ack"})'
    BY <2>1, <2>4, LeereFolge DEF NurArten, Leer
  <2>9. QED
    BY <2>6, <2>7, <2>8 DEF Sendet
<1>4. QED
  BY <1>2, <1>3

LEMMA SendeArten ==
  ASSUME Leitungen, NEW i \in Instanz, NEW m, Sende(i, m), ab' = ab, NEW A, m.art \in A, NurArten(A)
  PROVE  NurArten(A)'
<1>1. \A j \in Instanz : Range(auf'[j]) \subseteq Range(auf[j]) \cup {m}
  BY SendeRange
<1>2. QED
  BY <1>1 DEF NurArten

\* A part or an end is taken by the target of the move only.
LEMMA ErwartetVomZiel ==
  ASSUME IInv, NEW i \in Instanz, NEW m \in Gute, Erwartet(i, m)
  PROVE  ziel[i].id # 0
<1>1. m.gegen \in Instanz /\ m.gegen = ziel[i].quelle
  BY DEF Gute, Erwartet
<1>2. QED
  BY <1>1, NiemandAssumption DEF IInv, Ziele, Passt

LEMMA AbbrechenVorbei ==
  ASSUME IInv, NEW t \in Instanz, NEW s \in Instanz, ZielIst(t, s), AbbrechenZiel(t) \/ ziel' = [ziel EXCEPT ![t] = KeinZiel]
  PROVE  KeinesZiel'
<1>1. ziel' = [ziel EXCEPT ![t] = KeinZiel]
  BY DEF AbbrechenZiel
<1>2. QED
  BY <1>1 DEF ZielIst, KeinesZiel, KeinZiel, IInv, Ziele

LEMMA SendetQuelle ==
  ASSUME IInv, Sendet, NEW i \in Instanz, TeilSenden(i) \/ LaufBricht(i) \/ EndeSenden(i)
  PROVE  (Sendet \/ Gesendet)'
<1>1. PICK t \in Instanz, s \in Instanz : ZielIst(t, s) /\ QuelleIst(s, t) /\ Fortgang(s, t)
  BY DEF Sendet
<1>2. i = s /\ lauf[s] \in LaufTyp /\ lauf[s].id = 1 /\ lauf[s].ziel = t
  BY <1>1 DEF TeilSenden, LaufBricht, EndeSenden, QuelleIst, IInv, Quelle
<1>3. ~LaufBricht(i)
  BY <1>1, <1>2 DEF LaufBricht, QuelleIst, Sendet, Verbindung
<1>4. UNCHANGED <<verbunden, ziel, neustart, ab>>
  BY <1>3 DEF TeilSenden, EndeSenden
<1>5. ZielIst(t, s)' /\ Verbindung'
  BY <1>1, <1>4 DEF ZielIst, Sendet, Verbindung
<1>6. CASE TeilSenden(i)
  <2> DEFINE m == Nachricht("umzug-teil", t, 1, lauf[s].n)
  <2>1. lauf[s].n \in 0..Teile /\ lauf[s].n < Teile /\ Sende(s, m)
    BY <1>2, <1>6 DEF TeilSenden, Frei, LaufTyp
  <2>3. m.art = "umzug-teil"
    BY DEF Nachricht
  <2> HIDE DEF m
  <2>4. NurArten({"umzug-teil", "umzug-ack"})'
    BY <1>4, <2>1, <2>3, SendeArten DEF Sendet, IInv
  <2>5. lauf'[s] = [lauf[s] EXCEPT !.n = lauf[s].n + 1] /\ \A j \in Instanz \ {s} : lauf'[j] = lauf[j]
    BY <1>2, <1>6 DEF TeilSenden, IInv, Quelle
  <2>6. lauf'[s].n - 1 = lauf[s].n /\ QuelleIst(s, t)'
    BY <1>1, <1>2, <2>1, <2>5 DEF QuelleIst, LaufTyp
  <2>7. m \in Range(auf'[s])
    <3>1. Leitungen /\ s \in Instanz
      BY DEF IInv
    <3>2. Range(auf'[s]) = Range(auf[s]) \cup {m}
      BY <2>1, <3>1, SendeRange, Zenon
    <3>3. QED
      BY <3>2
  <2>8. Fortgang(s, t)'
    BY <2>6, <2>7 DEF Fortgang, Unterwegs, m
  <2>9. QED
    BY <1>5, <2>4, <2>6, <2>8 DEF Sendet
<1>7. CASE EndeSenden(i)
  <2> DEFINE m == Nachricht("umzug-ende", t, 1, Teile)
  <2>1. Sende(s, m) /\ lauf[s].n = Teile
    BY <1>2, <1>7 DEF EndeSenden, Sendet, Verbindung
  <2>3. m.art = "umzug-ende"
    BY DEF Nachricht
  <2> HIDE DEF m
  <2>4. NurArten({"umzug-teil", "umzug-ack", "umzug-ende"})
    BY DEF Sendet, NurArten
  <2>5. NurArten({"umzug-teil", "umzug-ack", "umzug-ende"})'
    BY <1>4, <2>1, <2>3, <2>4, SendeArten DEF IInv
  <2>6. m \in Range(auf'[s])
    <3>1. Leitungen /\ s \in Instanz
      BY DEF IInv
    <3>2. Range(auf'[s]) = Range(auf[s]) \cup {m}
      BY <2>1, <3>1, SendeRange, Zenon
    <3>3. QED
      BY <3>2
  <2>7. KeinerSendet'
    BY <1>1, <1>2, <1>7 DEF EndeSenden, KeinerSendet, QuelleIst, KeinLauf, IInv, Quelle
  <2>8. Unterwegs("umzug-ende", s, t, Teile)'
    BY <2>6 DEF Unterwegs, m
  <2>9. QED
    BY <1>5, <2>5, <2>7, <2>8 DEF Gesendet
<1>8. QED
  BY <1>3, <1>6, <1>7

LEMMA SendetWeiter ==
  ASSUME IInv, Sendet, NEW i \in Instanz, Weiterleiten(i)
  PROVE  Sendet'
<1>1. PICK t \in Instanz, s \in Instanz : ZielIst(t, s) /\ QuelleIst(s, t) /\ Fortgang(s, t)
  BY DEF Sendet
<1>2. UNCHANGED <<verbunden, ziel, lauf, neustart>>
  BY WeiterBleibt
<1>3. ZielIst(t, s)' /\ QuelleIst(s, t)' /\ Verbindung'
  BY <1>1, <1>2 DEF ZielIst, QuelleIst, Sendet, Verbindung
<1>4. Leitungen /\ Verbindung
  BY DEF IInv, Sendet
<1>5. Fortgang(s, t)'
  <2>1. CASE lauf[s].bestaetigt >= lauf[s].n
    BY <1>2, <2>1 DEF Fortgang
  <2>2. CASE Unterwegs("umzug-teil", s, t, lauf[s].n - 1)
    <3>1. Unterwegs("umzug-teil", s, t, lauf[s].n - 1)'
      BY <1>2, <1>4, <2>2, WeiterUnterwegs DEF Unterwegs
    <3>2. QED
      BY <3>1 DEF Fortgang
  <2>3. CASE Unterwegs("umzug-ack", t, s, lauf[s].n)
    <3>1. Unterwegs("umzug-ack", t, s, lauf[s].n)'
      BY <1>2, <1>4, <2>3, WeiterUnterwegs DEF Unterwegs
    <3>2. QED
      BY <3>1 DEF Fortgang
  <2>4. QED
    BY <1>1, <2>1, <2>2, <2>3 DEF Fortgang
<1>6. NurArten({"umzug-teil", "umzug-ack"})'
  BY <1>4, WeiterArten DEF Sendet
<1>7. QED
  BY <1>3, <1>5, <1>6 DEF Sendet

\* An acknowledgement changes no more than what is known to have arrived.
LEMMA AckSchritt ==
  ASSUME IInv, NEW i \in Instanz, Empfange(i), NEW m \in Gute, BeiAck(i, m)
  PROVE  /\ UNCHANGED <<verbunden, auf, ziel, neustart>>
         /\ \A j \in Instanz : /\ lauf'[j].id = lauf[j].id /\ lauf'[j].ziel = lauf[j].ziel
                            /\ lauf'[j].n = lauf[j].n /\ lauf'[j].abbruch = lauf[j].abbruch
         /\ \A j \in Instanz : lauf'[j].bestaetigt >= lauf[j].bestaetigt
         /\ m.id = lauf[i].id => lauf'[i].bestaetigt >= m.n
<1> DEFINE b == IF m.id = lauf[i].id THEN Bestaetigt(lauf[i].bestaetigt, m.n) ELSE lauf[i].bestaetigt
<1>1. UNCHANGED <<verbunden, auf, ziel, neustart>>
  BY DEF Empfange, BeiAck
<1>2. lauf \in [Instanz -> LaufTyp] /\ lauf' = [lauf EXCEPT ![i].bestaetigt = b]
  BY DEF BeiAck, IInv, Quelle
<1>3. \A j \in Instanz : lauf[j].bestaetigt \in Nat
  BY <1>2 DEF LaufTyp
<1>4. m.n \in Nat
  BY DEF Gute
<1>5. b >= lauf[i].bestaetigt /\ (m.id = lauf[i].id => b >= m.n)
  BY <1>3, <1>4 DEF Bestaetigt
<1> HIDE DEF b
<1>6. lauf'[i] = [lauf[i] EXCEPT !.bestaetigt = b] /\ \A j \in Instanz \ {i} : lauf'[j] = lauf[j]
  BY <1>2
<1>7. lauf'[i].bestaetigt = b
  BY <1>2, <1>6 DEF LaufTyp
<1>8. /\ lauf'[i].id = lauf[i].id /\ lauf'[i].ziel = lauf[i].ziel
      /\ lauf'[i].n = lauf[i].n /\ lauf'[i].abbruch = lauf[i].abbruch
  BY <1>2, <1>6 DEF LaufTyp
<1>9. \A j \in Instanz : lauf'[j].bestaetigt >= lauf[j].bestaetigt
  <2>1. \A j \in Instanz \ {i} : lauf'[j].bestaetigt >= lauf[j].bestaetigt
    BY <1>3, <1>6
  <2>2. QED
    BY <1>5, <1>7, <2>1
<1>10. QED
  BY <1>1, <1>5, <1>6, <1>7, <1>8, <1>9

LEMMA SendetAck ==
  ASSUME IInv, Sendet, NEW i \in Instanz, Empfange(i), NEW m, m = Head(ab[i]), BeiAck(i, m)
  PROVE  Sendet'
<1>1. PICK t \in Instanz, s \in Instanz : ZielIst(t, s) /\ QuelleIst(s, t) /\ Fortgang(s, t)
  BY DEF Sendet
<1>2. Leitungen /\ m \in Gute /\ lauf \in [Instanz -> LaufTyp]
  BY EmpfangeRange DEF IInv, Quelle
<1>3. /\ UNCHANGED <<verbunden, auf, ziel, neustart>>
      /\ \A j \in Instanz : /\ lauf'[j].id = lauf[j].id /\ lauf'[j].ziel = lauf[j].ziel
                         /\ lauf'[j].n = lauf[j].n /\ lauf'[j].abbruch = lauf[j].abbruch
      /\ \A j \in Instanz : lauf'[j].bestaetigt >= lauf[j].bestaetigt
      /\ m.id = lauf[i].id => lauf'[i].bestaetigt >= m.n
  BY <1>2, AckSchritt
<1>4. ZielIst(t, s)' /\ QuelleIst(s, t)' /\ Verbindung'
  BY <1>1, <1>3 DEF ZielIst, QuelleIst, Sendet, Verbindung
<1>5. NurArten({"umzug-teil", "umzug-ack"})'
  BY <1>2, <1>3, EmpfangeArten DEF Sendet
<1>6. PICK n \in 0..Teile : n = lauf[s].n
  BY <1>2 DEF LaufTyp
<1>7. Fortgang(s, t)'
  <2>1. CASE lauf[s].bestaetigt >= n
    <3>1. lauf[s].bestaetigt \in Nat /\ lauf'[s].bestaetigt >= lauf[s].bestaetigt /\ lauf'[s].n = n
      BY <1>2, <1>3, <1>6 DEF LaufTyp
    <3>2. lauf'[s].bestaetigt \in Nat
      BY EmpfangeSchritt DEF IInv, Quelle, LaufTyp
    <3>3. QED
      BY <2>1, <3>1, <3>2 DEF Fortgang
  <2>2. CASE Unterwegs("umzug-teil", s, t, n - 1)
    <3>1. Unterwegs("umzug-teil", s, t, n - 1)' \/ m = Nachricht("umzug-teil", s, 1, n - 1)
      BY <1>2, <1>3, <2>2, EmpfangeUnterwegs
    <3>2. Unterwegs("umzug-teil", s, t, n - 1)'
      BY <3>1 DEF BeiAck, Nachricht
    <3>3. QED
      BY <1>3, <1>6, <3>2 DEF Fortgang
  <2>3. CASE Unterwegs("umzug-ack", t, s, n)
    <3>1. Unterwegs("umzug-ack", t, s, n)' \/ (i = s /\ m = Nachricht("umzug-ack", t, 1, n))
      BY <1>2, <1>3, <2>3, EmpfangeUnterwegs
    <3>2. CASE Unterwegs("umzug-ack", t, s, n)'
      BY <1>3, <1>6, <3>2 DEF Fortgang
    <3>3. CASE i = s /\ m = Nachricht("umzug-ack", t, 1, n)
      <4>1. m.id = 1 /\ m.n = n
        BY <3>3 DEF Nachricht
      <4>2. lauf'[s].bestaetigt >= lauf'[s].n
        BY <1>1, <1>3, <1>6, <3>3, <4>1 DEF QuelleIst
      <4>3. QED
        BY <4>2 DEF Fortgang
    <3>4. QED
      BY <3>1, <3>2, <3>3
  <2>4. QED
    BY <1>1, <1>6, <2>1, <2>2, <2>3 DEF Fortgang
<1>8. QED
  BY <1>4, <1>5, <1>7 DEF Sendet

\* A target that throws ends the only move there is.
LEMMA WirftVorbei ==
  ASSUME IInv, NEW t \in Instanz, NEW s \in Instanz, ZielIst(t, s), Empfange(t), NEW m, ZielWirft(t, m),
         NurArten(Art \ {"umzug-bitte"})
  PROVE  Vorbei'
<1> DEFINE x == Nachricht("umzug-abbruch", m.gegen, m.id, 0)
<1>1. Sende(t, x) /\ x.art \in Art \ {"umzug-bitte"}
  BY DEF ZielWirft, Nachricht, Art
<1> HIDE DEF x
<1>2. NurArten(Art \ {"umzug-bitte"})'
  BY <1>1, EmpfangeArten DEF IInv
<1>3. QED
  BY <1>2, AbbrechenVorbei DEF ZielWirft, Vorbei

LEMMA SendetTeil ==
  ASSUME IInv, Sendet, NEW i \in Instanz, Empfange(i), NEW m, m = Head(ab[i]), BeiTeil(i, m),
         risse \in Nat, risse' = risse
  PROVE  (Sendet \/ Vorbei)'
<1>1. PICK t \in Instanz, s \in Instanz : ZielIst(t, s) /\ QuelleIst(s, t) /\ Fortgang(s, t)
  BY DEF Sendet
<1>2. Leitungen /\ m \in Gute /\ lauf \in [Instanz -> LaufTyp] /\ ziel \in [Instanz -> ZielTyp]
  BY EmpfangeRange DEF IInv, Quelle, Ziele
<1>3. i = t /\ m.id = 1 /\ m.gegen = s /\ m.art = "umzug-teil"
  BY <1>1, <1>2, ErwartetVomZiel DEF BeiTeil, Erwartet, ZielIst
<1>4. CASE ZielWirft(i, m)
  <2>1. NurArten(Art \ {"umzug-bitte"})
    BY DEF Sendet, NurArten, Art
  <2>2. QED
    BY <1>1, <1>3, <1>4, <2>1, WirftVorbei
<1>5. CASE /\ InReihe(i, m)
           /\ ziel' = [ziel EXCEPT ![i] = [id |-> m.id, quelle |-> m.gegen, erwartet |-> m.n + 1, still |-> TRUE]]
           /\ Sende(i, Nachricht("umzug-ack", m.gegen, m.id, m.n + 1))
  <2> DEFINE a == Nachricht("umzug-ack", s, 1, m.n + 1)
  <2>1. Sende(t, a) /\ a.art = "umzug-ack"
    BY <1>3, <1>5 DEF Nachricht
  <2> HIDE DEF a
  <2>2. UNCHANGED <<lauf, neustart, verbunden>>
    BY DEF BeiTeil, Empfange
  <2>3. ZielIst(t, s)'
    BY <1>1, <1>2, <1>3, <1>5 DEF ZielIst
  <2>4. QuelleIst(s, t)' /\ Verbindung'
    BY <1>1, <2>2 DEF QuelleIst, Sendet, Verbindung
  <2>5. NurArten({"umzug-teil", "umzug-ack"})'
    BY <1>2, <1>3, <2>1, EmpfangeArten DEF Sendet
  <2>6. PICK n \in 0..Teile : n = lauf[s].n
    BY <1>2 DEF LaufTyp
  <2>7. CASE lauf[s].bestaetigt >= n
    BY <2>2, <2>3, <2>4, <2>5, <2>6, <2>7 DEF Fortgang, Sendet
  <2>8. CASE Unterwegs("umzug-teil", s, t, n - 1)
    <3>1. Unterwegs("umzug-teil", s, t, n - 1)' \/ m = Nachricht("umzug-teil", s, 1, n - 1)
      BY <1>2, <1>3, <2>1, <2>8, EmpfangeUnterwegs
    <3>2. CASE Unterwegs("umzug-teil", s, t, n - 1)'
      BY <2>2, <2>3, <2>4, <2>5, <2>6, <3>2 DEF Fortgang, Sendet
    <3>3. CASE m = Nachricht("umzug-teil", s, 1, n - 1)
      <4>1. m.n + 1 = n
        BY <2>6, <3>3 DEF Nachricht
      <4>2. Range(auf'[t]) = Range(auf[t]) \cup {a}
        BY <1>2, <2>1, SendeRange, Zenon
      <4>3. Unterwegs("umzug-ack", t, s, n)'
        BY <4>1, <4>2 DEF Unterwegs, a
      <4>4. QED
        BY <2>2, <2>3, <2>4, <2>5, <2>6, <4>3 DEF Fortgang, Sendet
    <3>4. QED
      BY <3>1, <3>2, <3>3
  <2>9. CASE Unterwegs("umzug-ack", t, s, n)
    <3>1. Unterwegs("umzug-ack", t, s, n)' \/ m = Nachricht("umzug-ack", t, 1, n)
      BY <1>2, <1>3, <2>1, <2>9, EmpfangeUnterwegs
    <3>2. Unterwegs("umzug-ack", t, s, n)'
      BY <1>3, <3>1 DEF Nachricht
    <3>3. QED
      BY <2>2, <2>3, <2>4, <2>5, <2>6, <3>2 DEF Fortgang, Sendet
  <2>10. QED
    BY <1>1, <2>6, <2>7, <2>8, <2>9 DEF Fortgang
<1>6. QED
  BY <1>4, <1>5 DEF BeiTeil

LEMMA SendetFremdes ==
  ASSUME IInv, Sendet, NEW i \in Instanz, Empfange(i), NEW m, m = Head(ab[i]), BeiFremdem(i, m)
  PROVE  Sendet'
<1>1. PICK t \in Instanz, s \in Instanz : ZielIst(t, s) /\ QuelleIst(s, t) /\ Fortgang(s, t)
  BY DEF Sendet
<1>2. Leitungen /\ lauf \in [Instanz -> LaufTyp]
  BY DEF IInv, Quelle
<1>3. UNCHANGED <<verbunden, auf, ziel, lauf, neustart>>
  BY DEF Empfange, BeiFremdem
<1>4. ZielIst(t, s)' /\ QuelleIst(s, t)' /\ Verbindung'
  BY <1>1, <1>3 DEF ZielIst, QuelleIst, Sendet, Verbindung
<1>5. NurArten({"umzug-teil", "umzug-ack"})'
  BY <1>2, <1>3, EmpfangeArten DEF Sendet
<1>6. PICK n \in 0..Teile : n = lauf[s].n
  BY <1>2 DEF LaufTyp
<1>7. CASE lauf[s].bestaetigt >= n
  BY <1>3, <1>4, <1>5, <1>6, <1>7 DEF Fortgang, Sendet
<1>8. CASE Unterwegs("umzug-teil", s, t, n - 1)
  <2>1. Unterwegs("umzug-teil", s, t, n - 1)' \/ (i = t /\ m = Nachricht("umzug-teil", s, 1, n - 1))
    BY <1>2, <1>3, <1>8, EmpfangeUnterwegs
  <2>2. ~(i = t /\ m = Nachricht("umzug-teil", s, 1, n - 1))
    BY <1>1 DEF BeiFremdem, Erwartet, ZielIst, Nachricht
  <2>3. QED
    BY <1>3, <1>4, <1>5, <1>6, <2>1, <2>2 DEF Fortgang, Sendet
<1>9. CASE Unterwegs("umzug-ack", t, s, n)
  <2>1. Unterwegs("umzug-ack", t, s, n)' \/ m = Nachricht("umzug-ack", t, 1, n)
    BY <1>2, <1>3, <1>9, EmpfangeUnterwegs
  <2>2. m # Nachricht("umzug-ack", t, 1, n)
    BY DEF BeiFremdem, Nachricht
  <2>3. QED
    BY <1>3, <1>4, <1>5, <1>6, <2>1, <2>2 DEF Fortgang, Sendet
<1>10. QED
  BY <1>1, <1>6, <1>7, <1>8, <1>9 DEF Fortgang

LEMMA SendetEmpfange ==
  ASSUME IInv, Sendet, NEW i \in Instanz, Empfange(i), risse \in Nat, risse' = risse
  PROVE  (Sendet \/ Vorbei)'
<1> DEFINE m == Head(ab[i])
<1>1. m.art \in {"umzug-teil", "umzug-ack"}
  <2>1. Range(ab[i]) = Range(ab'[i]) \cup {m}
    BY EmpfangeRange DEF IInv
  <2>2. QED
    BY <2>1 DEF Sendet, NurArten
<1>2. BeiAck(i, m) \/ BeiTeil(i, m) \/ BeiFremdem(i, m)
  BY <1>1 DEF Empfange, BeiFehler, BeiBitte, BeiAbgelehnt, BeiStart, BeiAbbruch, BeiEnde
<1> HIDE DEF m
<1>3. m = Head(ab[i])
  BY DEF m
<1>4. QED
  BY <1>2, <1>3, SendetAck, SendetTeil, SendetFremdes

\* The end that was sent is on its way until the target has it.
LEMMA GesendetWeiter ==
  ASSUME IInv, Gesendet, NEW i \in Instanz, Weiterleiten(i)
  PROVE  Gesendet'
<1>1. PICK t \in Instanz, s \in Instanz : ZielIst(t, s) /\ Unterwegs("umzug-ende", s, t, Teile)
  BY DEF Gesendet
<1>2. Leitungen /\ Verbindung
  BY DEF IInv, Gesendet
<1>3. UNCHANGED <<verbunden, ziel, lauf, neustart>>
  BY WeiterBleibt
<1>4. ZielIst(t, s)' /\ KeinerSendet' /\ Verbindung'
  BY <1>1, <1>3 DEF ZielIst, Gesendet, KeinerSendet, Verbindung
<1>5. Unterwegs("umzug-ende", s, t, Teile)'
  BY <1>1, <1>2, WeiterUnterwegs
<1>6. NurArten({"umzug-teil", "umzug-ack", "umzug-ende"})'
  BY <1>2, WeiterArten DEF Gesendet
<1>7. QED
  BY <1>4, <1>5, <1>6 DEF Gesendet

LEMMA GesendetEmpfange ==
  ASSUME IInv, Gesendet, NEW i \in Instanz, Empfange(i), risse \in Nat, risse' = risse
  PROVE  (Gesendet \/ Vorbei)'
<1>1. PICK t \in Instanz, s \in Instanz : ZielIst(t, s) /\ Unterwegs("umzug-ende", s, t, Teile)
  BY DEF Gesendet
<1>2. PICK m \in Gute : m = Head(ab[i])
  BY EmpfangeRange DEF IInv
<1>3. m.art \in {"umzug-teil", "umzug-ack", "umzug-ende"}
  <2>1. Range(ab[i]) = Range(ab'[i]) \cup {m}
    BY <1>2, EmpfangeRange DEF IInv
  <2>2. QED
    BY <2>1 DEF Gesendet, NurArten
<1>4. BeiAck(i, m) \/ BeiTeil(i, m) \/ BeiEnde(i, m) \/ BeiFremdem(i, m)
  BY <1>2, <1>3 DEF Empfange, BeiFehler, BeiBitte, BeiAbgelehnt, BeiStart, BeiAbbruch
<1>5. Leitungen /\ ziel \in [Instanz -> ZielTyp]
  BY DEF IInv, Ziele
<1>6. NurArten(Art \ {"umzug-bitte"})
  BY DEF Gesendet, NurArten, Art
<1>7. ASSUME m # Nachricht("umzug-ende", s, 1, Teile) \/ i # t, auf' = auf \/ \E x : x.art = "umzug-ack" /\ Sende(i, x),
             ZielIst(t, s)', \A j \in Instanz : lauf'[j].id = lauf[j].id, neustart' = neustart
      PROVE  Gesendet'
  <2>1. Unterwegs("umzug-ende", s, t, Teile)'
    BY <1>1, <1>2, <1>5, <1>7, EmpfangeUnterwegs
  <2>2. NurArten({"umzug-teil", "umzug-ack", "umzug-ende"})'
    BY <1>5, <1>7, EmpfangeArten DEF Gesendet
  <2>3. KeinerSendet' /\ Verbindung'
    BY <1>7 DEF Gesendet, KeinerSendet, Verbindung, Empfange
  <2>4. QED
    BY <1>7, <2>1, <2>2, <2>3 DEF Gesendet
<1>8. CASE BeiAck(i, m)
  <2>1. UNCHANGED <<auf, ziel, neustart>> /\ \A j \in Instanz : lauf'[j].id = lauf[j].id
    BY <1>8, AckSchritt
  <2>2. ZielIst(t, s)'
    BY <1>1, <2>1 DEF ZielIst
  <2>3. m # Nachricht("umzug-ende", s, 1, Teile)
    BY <1>8 DEF BeiAck, Nachricht
  <2>4. QED
    BY <1>7, <2>1, <2>2, <2>3
<1>9. CASE BeiTeil(i, m)
  <2>1. i = t /\ m.id = 1 /\ m.gegen = s /\ m.art = "umzug-teil"
    BY <1>1, <1>9, ErwartetVomZiel DEF BeiTeil, Erwartet, ZielIst
  <2>2. CASE ZielWirft(i, m)
    BY <1>1, <1>6, <2>1, <2>2, WirftVorbei
  <2>3. CASE /\ ziel' = [ziel EXCEPT ![i] = [id |-> m.id, quelle |-> m.gegen, erwartet |-> m.n + 1, still |-> TRUE]]
             /\ Sende(i, Nachricht("umzug-ack", m.gegen, m.id, m.n + 1))
    <3>1. \E x : x.art = "umzug-ack" /\ Sende(i, x)
      BY <2>3 DEF Nachricht
    <3>2. ZielIst(t, s)'
      BY <1>1, <1>5, <2>1, <2>3 DEF ZielIst
    <3>3. m # Nachricht("umzug-ende", s, 1, Teile)
      BY <2>1 DEF Nachricht
    <3>4. UNCHANGED <<lauf, neustart>>
      BY <1>9 DEF BeiTeil
    <3>5. QED
      BY <1>7, <3>1, <3>2, <3>3, <3>4
  <2>4. QED
    BY <1>9, <2>2, <2>3 DEF BeiTeil
<1>10. CASE BeiEnde(i, m)
  <2>1. i = t
    BY <1>1, <1>10, ErwartetVomZiel DEF BeiEnde, ZielIst
  <2>2. CASE ZielWirft(i, m)
    BY <1>1, <1>6, <2>1, <2>2, WirftVorbei
  <2>3. CASE ziel' = [ziel EXCEPT ![i] = KeinZiel] /\ auf' = auf
    <3>1. KeinesZiel'
      BY <1>1, <2>1, <2>3, AbbrechenVorbei
    <3>2. NurArten(Art \ {"umzug-bitte"})'
      BY <1>5, <1>6, <2>3, EmpfangeArten
    <3>3. QED
      BY <3>1, <3>2 DEF Vorbei
  <2>4. QED
    BY <1>10, <2>2, <2>3 DEF BeiEnde
<1>11. CASE BeiFremdem(i, m)
  <2>1. UNCHANGED <<auf, ziel, lauf, neustart>>
    BY <1>11 DEF BeiFremdem
  <2>2. ZielIst(t, s)'
    BY <1>1, <2>1 DEF ZielIst
  <2>3. m # Nachricht("umzug-ende", s, 1, Teile) \/ i # t
    BY <1>1, <1>11 DEF BeiFremdem, Erwartet, ZielIst, Nachricht
  <2>4. QED
    BY <1>7, <2>1, <2>2, <2>3
<1>12. QED
  BY <1>4, <1>8, <1>9, <1>10, <1>11

\* A move that is over does not come back.
LEMMA VorbeiHandler ==
  ASSUME IInv, Vorbei, NEW i \in Instanz, Empfange(i)
  PROVE  Vorbei'
<1> DEFINE A == Art \ {"umzug-bitte"}
<1>1. PICK m \in Gute : m = Head(ab[i])
  BY EmpfangeRange DEF IInv
<1>2. m.art \in A
  <2>1. Range(ab[i]) = Range(ab'[i]) \cup {m}
    BY <1>1, EmpfangeRange DEF IInv
  <2>2. QED
    BY <2>1 DEF Vorbei, NurArten
<1>3. ~Erwartet(i, m)
  BY ErwartetVomZiel DEF Vorbei, KeinesZiel
<1>4. \/ BeiFehler(i, m) \/ BeiAbgelehnt(i, m) \/ BeiStart(i, m)
      \/ BeiAck(i, m) \/ BeiAbbruch(i, m) \/ BeiFremdem(i, m)
  BY <1>1, <1>2, <1>3 DEF Empfange, BeiBitte, BeiTeil, BeiEnde
<1>5. auf' = auf \/ \E x : x.art \in A /\ Sende(i, x)
  <2>1. CASE BeiStart(i, m)
    <3>1. Nachricht("umzug-abbruch", m.gegen, m.id, 0).art \in A
      BY DEF Nachricht, Art
    <3>2. QED
      BY <2>1, <3>1 DEF BeiStart
  <2>2. CASE ~BeiStart(i, m)
    BY <1>4, <2>2 DEF BeiFehler, BeiAbgelehnt, BeiAck, BeiAbbruch, BeiFremdem
  <2>3. QED
    BY <2>1, <2>2
<1>6. ziel' = ziel \/ ziel' = [ziel EXCEPT ![i] = KeinZiel]
  BY <1>4 DEF BeiFehler, BeiAbgelehnt, BeiStart, BeiAck, BeiAbbruch, BeiFremdem, AbbrechenZiel
<1>7. KeinesZiel'
  BY <1>6 DEF Vorbei, KeinesZiel, KeinZiel, IInv, Ziele
<1>8. NurArten(A)'
  BY <1>5, EmpfangeArten DEF Vorbei, IInv
<1>9. QED
  BY <1>7, <1>8 DEF Vorbei

LEMMA VorbeiWeiter ==
  ASSUME IInv, Vorbei, NEW i \in Instanz, Weiterleiten(i)
  PROVE  Vorbei'
<1> DEFINE A == Art \ {"umzug-bitte"}
<1>1. auf[i] \in Seq(Gute) /\ auf[i] # <<>> /\ auf'[i] = Tail(auf[i]) /\ \A j \in Instanz \ {i} : auf'[j] = auf[j]
  BY DEF IInv, Leitungen, Weiterleiten
<1>2. PICK m \in Gute : m = Head(auf[i])
  BY <1>1, Abnehmen
<1>3. Range(auf[i]) = Range(auf'[i]) \cup {m}
  BY <1>1, <1>2, Abnehmen
<1>4. m.art \in A /\ m.gegen \in Instanz
  BY <1>2, <1>3 DEF Vorbei, NurArten, Gute
<1>5. ab' = ab \/ \E g \in Instanz : \E x : x.art \in A /\ ab' = [ab EXCEPT ![g] = Append(@, x)]
  <2>1. Nachricht(m.art, i, m.id, m.n).art \in A /\ Nachricht("fehler", m.gegen, 0, 0).art \in A
    BY <1>4 DEF Nachricht, Art
  <2>2. QED
    BY <1>2, <1>4, <2>1 DEF Weiterleiten
<1>6. \A j \in Instanz : \A k \in Range(ab'[j]) : k.art \in A
  <2>1. \A j \in Instanz : \A k \in Range(ab[j]) : k.art \in A
    BY DEF Vorbei, NurArten
  <2>2. ASSUME NEW g \in Instanz, NEW x, x.art \in A, ab' = [ab EXCEPT ![g] = Append(@, x)]
        PROVE  \A j \in Instanz : \A k \in Range(ab'[j]) : k.art \in A
    <3>1. ab[g] \in Seq(Gute) /\ ab'[g] = Append(ab[g], x) /\ \A j \in Instanz \ {g} : ab'[j] = ab[j]
      BY <2>2 DEF IInv, Leitungen
    <3>2. Range(ab'[g]) = Range(ab[g]) \cup {x}
      BY <3>1, Anhaengen
    <3>3. QED
      BY <2>1, <2>2, <3>1, <3>2
  <2>3. QED
    BY <1>5, <2>1, <2>2
<1>7. \A j \in Instanz : \A k \in Range(auf'[j]) : k.art \in A
  BY <1>1, <1>3 DEF Vorbei, NurArten
<1>8. QED
  BY <1>6, <1>7, WeiterBleibt DEF Vorbei, NurArten, KeinesZiel

LEMMA VorbeiSchritt ==
  ASSUME IInv, Vorbei, [Next]_vars, naechste = 2, naechste' <= 2
  PROVE  Vorbei'
<1> DEFINE A == Art \ {"umzug-bitte"}
<1>n. NurArten(A) /\ KeinesZiel /\ Leitungen
  BY DEF Vorbei, IInv
\* The lines are as before, or those of one AVA are emptied, and no target is made.
<1>l. ASSUME NEW i \in Instanz, ziel' = ziel \/ ziel' = [ziel EXCEPT ![i] = KeinZiel],
             UNCHANGED <<auf, ab>> \/ Getrennt(i)
      PROVE  Vorbei'
  <2>1. KeinesZiel'
    BY <1>n, <1>l DEF KeinesZiel, KeinZiel, IInv, Ziele
  <2>2. \A j \in Instanz : auf'[j] \in {auf[j], <<>>} /\ ab'[j] \in {ab[j], <<>>}
    BY <1>n, <1>l DEF Getrennt, Leitungen
  <2>3. NurArten(A)'
    BY <1>n, <2>2, LeereFolge DEF NurArten
  <2>4. QED
    BY <2>1, <2>3 DEF Vorbei
\* A source sends a message.
<1>s. ASSUME NEW i \in Instanz, NEW x, x.art \in A, Sende(i, x), ab' = ab, ziel' = ziel
      PROVE  Vorbei'
  <2>1. NurArten(A)'
    BY <1>n, <1>s, SendeArten
  <2>2. QED
    BY <1>n, <1>s, <2>1 DEF Vorbei, KeinesZiel
<1>1. ASSUME NEW i \in Instanz, NEW j \in Instanz, Holen(i, j) \/ Senden(i, j)
      PROVE  Vorbei'
  BY <1>1 DEF Holen, Senden
<1>2. ASSUME NEW i \in Instanz, TeilSenden(i)
      PROVE  Vorbei'
  <2>1. Nachricht("umzug-teil", lauf[i].ziel, lauf[i].id, lauf[i].n).art \in A
    BY DEF Nachricht, Art
  <2>2. QED
    BY <1>2, <1>s, <2>1 DEF TeilSenden
<1>3. ASSUME NEW i \in Instanz, LaufBricht(i)
      PROVE  Vorbei'
  <2>1. Nachricht("umzug-abbruch", lauf[i].ziel, lauf[i].id, 0).art \in A
    BY DEF Nachricht, Art
  <2>2. QED
    BY <1>3, <1>l, <1>s, <2>1 DEF LaufBricht
<1>4. ASSUME NEW i \in Instanz, EndeSenden(i)
      PROVE  Vorbei'
  <2>1. Nachricht("umzug-ende", lauf[i].ziel, lauf[i].id, lauf[i].n).art \in A
    BY DEF Nachricht, Art
  <2>2. QED
    BY <1>4, <1>l, <1>s, <2>1 DEF EndeSenden
<1>5. ASSUME NEW i \in Instanz, Empfange(i) \/ Weiterleiten(i)
      PROVE  Vorbei'
  BY <1>5, VorbeiHandler, VorbeiWeiter
<1>6. ASSUME NEW i \in Instanz, HolenOhneRelais(i) \/ Stille(i) \/ AlteStille(i) \/ Verbinden(i)
      PROVE  Vorbei'
  BY <1>6, <1>l DEF HolenOhneRelais, Stille, AlteStille, AbbrechenZiel, Verbinden
<1>7. ASSUME NEW i \in Instanz, Reisst(i) \/ Neustart(i) \/ Absturz(i)
      PROVE  Vorbei'
  BY <1>7, <1>l DEF Reisst, Neustart, Absturz, Startet
<1>8. CASE UNCHANGED vars
  BY <1>8 DEF vars, Vorbei, KeinesZiel, NurArten
<1>9. QED
  BY <1>1, <1>2, <1>3, <1>4, <1>5, <1>6, <1>7, <1>8 DEF Next

LEMMA Zaehlen ==
  ASSUME [Next]_vars
  PROVE  naechste' \in {naechste, naechste + 1} /\ stille' \in {stille, stille + 1} /\ risse' \in {risse, risse + 1}
<1> USE DEF rest
<1>1. ASSUME NEW i \in Instanz, NEW j \in Instanz, Holen(i, j) \/ Senden(i, j)
      PROVE  naechste' = naechste + 1 /\ UNCHANGED <<stille, risse>>
  BY <1>1 DEF Holen, Senden
<1>2. ASSUME NEW i \in Instanz,
             HolenOhneRelais(i) \/ TeilSenden(i) \/ LaufBricht(i) \/ EndeSenden(i) \/ Weiterleiten(i)
             \/ Verbinden(i) \/ Neustart(i)
      PROVE  UNCHANGED rest
  BY <1>2 DEF HolenOhneRelais, TeilSenden, LaufBricht, EndeSenden, Weiterleiten, Verbinden, Neustart
<1>3. ASSUME NEW i \in Instanz, Empfange(i)
      PROVE  UNCHANGED <<naechste, stille>> /\ risse' \in {risse, risse + 1}
  <2> DEFINE m == Head(ab[i])
  <2>1. CASE BeiTeil(i, m) \/ BeiEnde(i, m)
    BY <1>3, <2>1 DEF Empfange, BeiTeil, BeiEnde
  <2>2. CASE ~(BeiTeil(i, m) \/ BeiEnde(i, m))
    BY <1>3, <2>2 DEF Empfange, BeiFehler, BeiBitte, BeiAbgelehnt, BeiStart, BeiAck, BeiAbbruch, BeiFremdem
  <2>3. QED
    BY <2>1, <2>2
<1>4. ASSUME NEW i \in Instanz, Stille(i) \/ AlteStille(i) \/ Reisst(i) \/ Absturz(i)
      PROVE  naechste' = naechste /\ stille' \in {stille, stille + 1} /\ risse' \in {risse, risse + 1}
  BY <1>4 DEF Stille, AlteStille, Reisst, Absturz
<1>5. CASE UNCHANGED vars
  BY <1>5 DEF vars
<1>6. QED
  BY <1>1, <1>2, <1>3, <1>4, <1>5 DEF Next

LEMMA NInvInit == Init => NInv
  BY DEF Init, NInv, EinUmzug, Ruhe, Leer, KeinesZiel, KeinerSendet, Verbindung, KeinZiel, KeinLauf

\* Nothing is on its way, and no source runs.
LEMMA RuheNurRufe ==
  ASSUME Ruhe, NEW i \in Instanz
  PROVE  ~(TeilSenden(i) \/ LaufBricht(i) \/ EndeSenden(i) \/ Empfange(i) \/ Weiterleiten(i))
  BY DEF Ruhe, Leer, KeinerSendet, TeilSenden, LaufBricht, EndeSenden, Empfange, Weiterleiten

LEMMA NInvNext == IInv /\ Uebriges /\ NInv /\ [Next]_vars => NInv'
<1> SUFFICES ASSUME IInv, Uebriges, NInv, [Next]_vars, risse' = 0, stille' = 0, naechste' <= 2
             PROVE  EinUmzug'
  BY DEF NInv
<1>1. risse \in Nat /\ stille \in Nat /\ naechste \in Nat
  BY DEF IInv, Quelle, Uebriges
<1>2. risse = 0 /\ stille = 0 /\ naechste <= 2 /\ naechste' \in {naechste, naechste + 1}
  BY <1>1, Zaehlen
<1>3. EinUmzug
  BY <1>2 DEF NInv
<1>4. CASE naechste = 2 /\ Vorbei
  <2>1. naechste' = 2
    BY <1>2, <1>4
  <2>2. QED
    BY <1>4, <2>1, VorbeiSchritt DEF EinUmzug
<1>5. CASE UNCHANGED vars
  BY <1>3, <1>5 DEF vars, rest, EinUmzug, Ruhe, Gebeten, Gestartet, Sendet, Gesendet, Vorbei, KeinesZiel,
                    KeinerSendet, Verbindung, NurArten, Einzige, ZielIst, QuelleIst, Fortgang, Unterwegs
<1>6. CASE ~(naechste = 2 /\ Vorbei) /\ ~UNCHANGED vars
  <2>1. Verbindung
    BY <1>3, <1>6 DEF EinUmzug, Ruhe, Gebeten, Gestartet, Sendet, Gesendet
  <2>2. PICK i \in Instanz : \/ \E j \in Instanz : Holen(i, j) \/ Senden(i, j)
                             \/ TeilSenden(i) \/ LaufBricht(i) \/ EndeSenden(i)
                             \/ Empfange(i) \/ Weiterleiten(i)
    BY <1>6, <2>1, NurDiese
  <2>3. CASE \E j \in Instanz : Holen(i, j) \/ Senden(i, j)
    <3>1. naechste' = naechste + 1
      BY <2>3 DEF Holen, Senden
    <3>2. naechste = 1 /\ Ruhe
      BY <1>1, <1>3, <3>1 DEF EinUmzug
    <3>3. QED
      BY <2>3, <3>2, RuheSchritt DEF EinUmzug
  <2>4. ASSUME ~\E j \in Instanz : Holen(i, j) \/ Senden(i, j)
        PROVE  naechste' = 2 /\ ~Ruhe /\ (Gebeten \/ Gestartet \/ Sendet \/ Gesendet)
    <3>1. ~Ruhe
      BY <2>2, <2>4, RuheNurRufe
    <3>2. naechste' = naechste
      BY <2>2, <2>4 DEF TeilSenden, LaufBricht, EndeSenden, Empfange, Weiterleiten, rest
    <3>3. QED
      BY <1>3, <1>6, <3>1, <3>2 DEF EinUmzug
  <2>5. CASE TeilSenden(i) \/ LaufBricht(i) \/ EndeSenden(i)
    <3>1. ~\E j \in Instanz : Holen(i, j) \/ Senden(i, j)
      BY <1>1, <2>5 DEF TeilSenden, LaufBricht, EndeSenden, Holen, Senden, rest
    <3>2. Sendet
      BY <2>4, <2>5, <3>1 DEF TeilSenden, LaufBricht, EndeSenden, Gebeten, Gestartet, Gesendet, KeinerSendet
    <3>3. QED
      BY <2>4, <2>5, <3>1, <3>2, SendetQuelle DEF EinUmzug
  <2>6. CASE Empfange(i) /\ ~\E j \in Instanz : Holen(i, j) \/ Senden(i, j)
    <3>1. risse' = risse
      BY <1>2
    <3>2. (Gebeten \/ Gestartet \/ Sendet \/ Gesendet \/ Vorbei)'
      BY <1>1, <2>4, <2>6, <3>1, GebetenSchritt, GestartetSchritt, SendetEmpfange, GesendetEmpfange
    <3>3. QED
      BY <2>4, <2>6, <3>2 DEF EinUmzug
  <2>7. CASE Weiterleiten(i) /\ ~\E j \in Instanz : Holen(i, j) \/ Senden(i, j)
    <3>1. (Gebeten \/ Gestartet \/ Sendet \/ Gesendet \/ Vorbei)'
      BY <2>4, <2>7, GebetenSchritt, GestartetSchritt, SendetWeiter, GesendetWeiter
    <3>2. QED
      BY <2>4, <2>7, <3>1 DEF EinUmzug
  <2>8. QED
    BY <2>2, <2>3, <2>5, <2>6, <2>7
<1>7. QED
  BY <1>4, <1>5, <1>6

\* A message that is on its way is on a line.
LEMMA UnterwegsIstDa ==
  ASSUME NEW a, NEW x \in Instanz, NEW y \in Instanz, NEW n, Unterwegs(a, x, y, n)
  PROVE  \E j \in Instanz : auf[j] # <<>> \/ ab[j] # <<>>
  BY LeereFolge DEF Unterwegs

\* As long as a single move is undisturbed, something is on its way or the source
\* can go on while the target waits: whatever the window and the number of parts,
\* no acknowledgement is waited for that nobody will send.
THEOREM NieVerklemmtImmer == Spec => []NieVerklemmt
<1>1. ASSUME IInv, NInv PROVE NieVerklemmt
  <2> SUFFICES ASSUME risse = 0, stille = 0, naechste <= 2, NEW i \in Instanz, ziel[i].id # 0
               PROVE  \E j \in Instanz : \/ auf[j] # <<>> \/ ab[j] # <<>>
                                         \/ lauf[j].id # 0 /\ (Frei(j) \/ lauf[j].abbruch \/ lauf[j].n = Teile)
    BY DEF NieVerklemmt
  <2>1. Gestartet \/ Sendet \/ Gesendet
    BY <1>1 DEF NInv, EinUmzug, Ruhe, Gebeten, Vorbei, KeinesZiel
  <2>2. CASE Gestartet
    <3>1. PICK t \in Instanz, s \in Instanz : Einzige("umzug-start", t, s)
      BY <2>2 DEF Gestartet
    <3>2. auf[t] # <<>> \/ ab[s] # <<>>
      <4>1. auf[t] = <<Nachricht("umzug-start", s, 1, 0)>> \/ ab[s] = <<Nachricht("umzug-start", t, 1, 0)>>
        BY <3>1 DEF Einzige, Leer
      <4>2. \A e : <<e>> # <<>>
        OBVIOUS
      <4>3. QED
        BY <4>1, <4>2
    <3>3. QED
      BY <3>2
  <2>3. CASE Sendet
    <3>1. PICK t \in Instanz, s \in Instanz : QuelleIst(s, t) /\ Fortgang(s, t)
      BY <2>3 DEF Sendet
    <3>2. CASE lauf[s].bestaetigt >= lauf[s].n
      <4>1. lauf[s].n \in 0..Teile /\ lauf[s].bestaetigt \in 0..Teile
        BY <1>1 DEF IInv, Quelle, LaufTyp
      <4>2. Frei(s) \/ lauf[s].n = Teile
        BY <3>2, <4>1 DEF Frei
      <4>3. QED
        BY <3>1, <4>2 DEF QuelleIst
    <3>3. CASE Unterwegs("umzug-teil", s, t, lauf[s].n - 1) \/ Unterwegs("umzug-ack", t, s, lauf[s].n)
      BY <3>3, UnterwegsIstDa
    <3>4. QED
      BY <3>1, <3>2, <3>3 DEF Fortgang
  <2>4. CASE Gesendet
    BY <2>4, UnterwegsIstDa DEF Gesendet
  <2>5. QED
    BY <2>1, <2>2, <2>3, <2>4
<1>2. QED
  BY <1>1, IInvInit, IInvNext, UebrigesInit, UebrigesNext, NInvInit, NInvNext, PTL DEF Spec
=============================================================================
