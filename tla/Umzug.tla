--------------------------------- MODULE Umzug ---------------------------------
(***************************************************************************)
(* A move ("Umzug") of all that an AVA keeps from one AVA of an account to *)
(* another: class Umzug of services/desktop/src/core/umzug/umzug.ts.  The  *)
(* target fetches ("holen"), or is asked to by the source ("senden"); the  *)
(* source sends the package in parts, at most FENSTER of them without an   *)
(* acknowledgement; the target checks it, marks its inbox as ready and     *)
(* restarts.  UmzugEinspielen models what that start does.                 *)
(*                                                                         *)
(* Messages go through the gateway: a line from an AVA to the gateway, one *)
(* back.  A cut line loses what is on it.  The gateway may take some time  *)
(* to notice; it then loses what it is given for the AVA, instead of       *)
(* answering "fehler".  Encryption is left out: a part that has another id *)
(* or number than the target waits for is refused before it is decrypted.  *)
(***************************************************************************)
EXTENDS Naturals, Sequences

CONSTANTS
    Instanz,      \* instance ids of the account's AVAs
    Niemand,      \* null
    Teile,        \* parts of a package
    FENSTER,
    MaxUmzuege,   \* bound: calls of holen and senden that start something
    MaxStille,    \* bound: how often a target's timer of STILL_MS runs out
    MaxRisse      \* bound: cut lines, crashes, parts or markers that cannot be written

ASSUME NiemandAssumption == Niemand \notin Instanz
ASSUME ZahlenAssumption == Teile \in Nat \ {0} /\ FENSTER \in Nat \ {0}
ASSUME GrenzenAssumption == MaxUmzuege \in Nat /\ MaxStille \in Nat /\ MaxRisse \in Nat

VARIABLES
    verbunden,   \* the relay of an AVA is connected
    auf, ab,     \* messages from an AVA to the gateway, and back
    stand,       \* stand.phase
    ziel,        \* zielZustand
    lauf,        \* quellLauf, with the n of alsQuelleSenden
    eingang,     \* the inbox: whose, the parts its files are made of, bereit.json
    neustart,    \* the timer of 2.5 s that restarts AVA runs
    uhr,         \* the timer of a target that was replaced while it ran
    naechste,    \* the next umzugId
    stille, risse

rest == <<naechste, stille, risse>>
vars == <<verbunden, auf, ab, stand, ziel, lauf, eingang, neustart, uhr, rest>>

UmzugPhase == {"bereit", "wartet", "sendet", "empfaengt", "fertig", "fehler"}
Art == {"umzug-bitte", "umzug-abgelehnt", "umzug-start", "umzug-teil", "umzug-ack",
        "umzug-ende", "umzug-abbruch", "fehler"}

\* "gegen" is where a message goes to, on its way to the gateway, and where it
\* comes from then; of "fehler" it is the AVA that is not connected.
Nachricht(art, gegen, id, n) == [art |-> art, gegen |-> gegen, id |-> id, n |-> n]

KeinZiel    == [id |-> 0, quelle |-> Niemand, erwartet |-> 0, still |-> FALSE]
KeinLauf    == [id |-> 0, ziel |-> Niemand, n |-> 0, bestaetigt |-> 0, abbruch |-> FALSE]
KeinEingang == [id |-> 0, teile |-> <<>>, bereit |-> FALSE]

Init ==
    /\ verbunden = [i \in Instanz |-> TRUE]
    /\ auf = [i \in Instanz |-> <<>>] /\ ab = [i \in Instanz |-> <<>>]
    /\ stand = [i \in Instanz |-> "bereit"]
    /\ ziel = [i \in Instanz |-> KeinZiel] /\ lauf = [i \in Instanz |-> KeinLauf]
    /\ eingang = [i \in Instanz |-> KeinEingang]
    /\ neustart = [i \in Instanz |-> FALSE] /\ uhr = [i \in Instanz |-> FALSE]
    /\ naechste = 1 /\ stille = 0 /\ risse = 0

Laeuft(i) == stand[i] \in {"wartet", "sendet", "empfaengt"}

Sende(i, m) == auf' = [auf EXCEPT ![i] = Append(@, m)]

-----------------------------------------------------------------------------
(* The user's calls. *)

\* zielZustand is overwritten: the timer of the one before runs on.
UhrLassen(i) == uhr' = [uhr EXCEPT ![i] = @ \/ ziel[i].still]

\* Mutant of ZielAnlegen: the timer is first set by a part.
ZielAnlegen_OhneStille(i, q, id) ==
    /\ eingang' = [eingang EXCEPT ![i] = [id |-> id, teile |-> <<>>, bereit |-> FALSE]]
    /\ ziel' = [ziel EXCEPT ![i] = [id |-> id, quelle |-> q, erwartet |-> 0, still |-> FALSE]]
    /\ stand' = [stand EXCEPT ![i] = "wartet"]
    /\ UhrLassen(i)
    /\ Sende(i, Nachricht("umzug-start", q, id, 0))

\* The inbox is made anew, the source is told to start.
ZielAnlegen(i, q, id) ==
    /\ eingang' = [eingang EXCEPT ![i] = [id |-> id, teile |-> <<>>, bereit |-> FALSE]]
    /\ ziel' = [ziel EXCEPT ![i] = [id |-> id, quelle |-> q, erwartet |-> 0, still |-> TRUE]]
    /\ stand' = [stand EXCEPT ![i] = "wartet"]
    /\ UhrLassen(i)
    /\ Sende(i, Nachricht("umzug-start", q, id, 0))

\* The list that says q is connected may be old.
Holen(i, q) ==
    /\ ~Laeuft(i) /\ q # i /\ verbunden[i] /\ naechste <= MaxUmzuege
    /\ ZielAnlegen(i, q, naechste)
    /\ naechste' = naechste + 1
    /\ UNCHANGED <<verbunden, ab, lauf, neustart, stille, risse>>

\* The socket is closing, the list not yet gone.
HolenOhneRelais(i) ==
    /\ ~Laeuft(i) /\ ~verbunden[i]
    /\ eingang' = [eingang EXCEPT ![i] = KeinEingang]
    /\ ziel' = [ziel EXCEPT ![i] = KeinZiel]
    /\ stand' = [stand EXCEPT ![i] = "fehler"]
    /\ UhrLassen(i)
    /\ UNCHANGED <<verbunden, auf, ab, lauf, neustart, rest>>

\* The id is the one the target will use: its own in the code.
Senden(i, z) ==
    /\ ~Laeuft(i) /\ z # i /\ verbunden[i] /\ naechste <= MaxUmzuege
    /\ Sende(i, Nachricht("umzug-bitte", z, naechste, 0))
    /\ stand' = [stand EXCEPT ![i] = "wartet"]
    /\ naechste' = naechste + 1
    /\ UNCHANGED <<verbunden, ab, ziel, lauf, eingang, neustart, uhr, stille, risse>>

-----------------------------------------------------------------------------
(* The source. *)

\* There is a part to send and room for it in the window.
Frei(i) == lauf[i].n < Teile /\ lauf[i].n < lauf[i].bestaetigt + FENSTER

TeilSenden(i) ==
    /\ lauf[i].id # 0 /\ Frei(i) /\ ~lauf[i].abbruch /\ verbunden[i]
    /\ Sende(i, Nachricht("umzug-teil", lauf[i].ziel, lauf[i].id, lauf[i].n))
    /\ lauf' = [lauf EXCEPT ![i].n = @ + 1]
    /\ UNCHANGED <<verbunden, ab, stand, ziel, eingang, neustart, uhr, rest>>

\* teilSenden throws: told to stop, or the relay is not connected.
LaufBricht(i) ==
    /\ lauf[i].id # 0 /\ lauf[i].n < Teile
    /\ lauf[i].abbruch \/ (Frei(i) /\ ~verbunden[i])
    /\ IF verbunden[i] THEN Sende(i, Nachricht("umzug-abbruch", lauf[i].ziel, lauf[i].id, 0))
                       ELSE UNCHANGED auf
    /\ stand' = [stand EXCEPT ![i] = "fehler"]
    /\ lauf' = [lauf EXCEPT ![i] = KeinLauf]
    /\ UNCHANGED <<verbunden, ab, ziel, eingang, neustart, uhr, rest>>

\* After the last part nobody looks at abbruch or at what "an" returns.
EndeSenden(i) ==
    /\ lauf[i].id # 0 /\ lauf[i].n = Teile
    /\ IF verbunden[i] THEN Sende(i, Nachricht("umzug-ende", lauf[i].ziel, lauf[i].id, lauf[i].n))
                       ELSE UNCHANGED auf
    /\ stand' = [stand EXCEPT ![i] = "fertig"]
    /\ lauf' = [lauf EXCEPT ![i] = KeinLauf]
    /\ UNCHANGED <<verbunden, ab, ziel, eingang, neustart, uhr, rest>>

-----------------------------------------------------------------------------
(* nachricht: AVA i takes the first message off its line, m.  Each handler *)
(* says what becomes of what it names.                                     *)

\* The part of abbrechenZiel that changes the state.
AbbrechenZiel(i) ==
    /\ eingang' = [eingang EXCEPT ![i] = IF ziel[i].id # 0 THEN KeinEingang ELSE @]
    /\ ziel' = [ziel EXCEPT ![i] = KeinZiel]
    /\ stand' = [stand EXCEPT ![i] = "fehler"]

BeiFehler(i, m) ==
    /\ m.art = "fehler"
    /\ IF ziel[i].id # 0 /\ m.gegen = ziel[i].quelle THEN AbbrechenZiel(i)
                                                     ELSE UNCHANGED <<eingang, ziel, stand>>
    /\ lauf' = [lauf EXCEPT ![i].abbruch = @ \/ (lauf[i].id # 0 /\ m.gegen = lauf[i].ziel)]
    /\ UNCHANGED <<auf, neustart, uhr, risse>>

\* holen may also refuse: the one that asks is not on this AVA's list.
BeiBitte(i, m) ==
    /\ m.art = "umzug-bitte"
    /\ \/ /\ Sende(i, Nachricht("umzug-abgelehnt", m.gegen, 0, 0))
          /\ UNCHANGED <<eingang, ziel, stand, uhr>>
       \/ ~Laeuft(i) /\ ZielAnlegen(i, m.gegen, m.id)
    /\ UNCHANGED <<lauf, neustart, risse>>

BeiAbgelehnt(i, m) ==
    /\ m.art = "umzug-abgelehnt"
    /\ stand' = [stand EXCEPT ![i] = "fehler"]
    /\ UNCHANGED <<auf, ziel, lauf, eingang, neustart, uhr, risse>>

BeiStart(i, m) ==
    /\ m.art = "umzug-start"
    /\ IF lauf[i].id # 0
       THEN /\ Sende(i, Nachricht("umzug-abbruch", m.gegen, m.id, 0))
            /\ UNCHANGED <<lauf, stand>>
       ELSE /\ lauf' = [lauf EXCEPT ![i] = [id |-> m.id, ziel |-> m.gegen, n |-> 0,
                                            bestaetigt |-> 0, abbruch |-> FALSE]]
            /\ stand' = [stand EXCEPT ![i] = "sendet"]
            /\ UNCHANGED auf
    /\ UNCHANGED <<ziel, eingang, neustart, uhr, risse>>

\* Mutant of Bestaetigt: the lower number counts.
Bestaetigt_Kleinste(alt, neu) == IF neu < alt THEN neu ELSE alt

\* Mutant of Bestaetigt: taken for the number of parts that are new.
Bestaetigt_Addiert(alt, neu) == alt + neu

Bestaetigt(alt, neu) == IF neu > alt THEN neu ELSE alt

BeiAck(i, m) ==
    /\ m.art = "umzug-ack"
    /\ lauf' = [lauf EXCEPT ![i].bestaetigt = IF m.id = lauf[i].id THEN Bestaetigt(@, m.n) ELSE @]
    /\ UNCHANGED <<auf, stand, ziel, eingang, neustart, uhr, risse>>

BeiAbbruch(i, m) ==
    /\ m.art = "umzug-abbruch"
    /\ IF m.id = ziel[i].id THEN AbbrechenZiel(i) ELSE UNCHANGED <<eingang, ziel, stand>>
    /\ lauf' = [lauf EXCEPT ![i].abbruch = @ \/ m.id = lauf[i].id]
    /\ UNCHANGED <<auf, neustart, uhr, risse>>

Erwartet(i, m) == m.id = ziel[i].id /\ m.gegen = ziel[i].quelle

\* What the target throws ends the move on both sides.
ZielWirft(i, m) ==
    /\ Sende(i, Nachricht("umzug-abbruch", m.gegen, m.id, 0))
    /\ AbbrechenZiel(i)

\* Mutant of InReihe: a part that comes too late only is refused.
InReihe_Luecke(i, m) == m.n >= ziel[i].erwartet

InReihe(i, m) == m.n = ziel[i].erwartet

BeiTeil(i, m) ==
    /\ m.art = "umzug-teil" /\ Erwartet(i, m)
    /\ \/ /\ InReihe(i, m)
          /\ eingang' = [eingang EXCEPT ![i].teile = Append(@, m.n)]
          /\ ziel' = [ziel EXCEPT ![i] = [id |-> m.id, quelle |-> m.gegen,
                                            erwartet |-> m.n + 1, still |-> TRUE]]
          /\ stand' = [stand EXCEPT ![i] = "empfaengt"]
          /\ Sende(i, Nachricht("umzug-ack", m.gegen, m.id, m.n + 1))
          /\ UNCHANGED risse
       \/ ~InReihe(i, m) /\ ZielWirft(i, m) /\ UNCHANGED risse
       \/ risse < MaxRisse /\ risse' = risse + 1 /\ ZielWirft(i, m)
    /\ UNCHANGED <<lauf, neustart, uhr>>

\* Mutant of Vollstaendig: what has come is taken for all.
Vollstaendig_Ungezaehlt(i, m) == eingang[i].teile = [k \in 1..ziel[i].erwartet |-> k - 1]

\* The number of parts is right, and the checksum over them.
Vollstaendig(i, m) ==
    m.n = ziel[i].erwartet /\ eingang[i].teile = [k \in 1..m.n |-> k - 1]

\* The manifest and the marker are written in one step, which may fail.
BeiEnde(i, m) ==
    /\ m.art = "umzug-ende" /\ Erwartet(i, m)
    /\ \/ /\ Vollstaendig(i, m)
          /\ eingang' = [eingang EXCEPT ![i].bereit = TRUE]
          /\ ziel' = [ziel EXCEPT ![i] = KeinZiel]
          /\ stand' = [stand EXCEPT ![i] = "fertig"]
          /\ neustart' = [neustart EXCEPT ![i] = TRUE]
          /\ UNCHANGED <<auf, risse>>
       \/ ~Vollstaendig(i, m) /\ ZielWirft(i, m) /\ UNCHANGED <<neustart, risse>>
       \/ risse < MaxRisse /\ risse' = risse + 1 /\ ZielWirft(i, m) /\ UNCHANGED neustart
    /\ UNCHANGED <<lauf, uhr>>

\* A part or an end of a move that is not waited for.
BeiFremdem(i, m) ==
    /\ m.art \in {"umzug-teil", "umzug-ende"} /\ ~Erwartet(i, m)
    /\ UNCHANGED <<auf, stand, ziel, lauf, eingang, neustart, uhr, risse>>

Empfange(i) ==
    /\ ab[i] # <<>>
    /\ ab' = [ab EXCEPT ![i] = Tail(@)]
    /\ LET m == Head(ab[i])
       IN \/ BeiFehler(i, m) \/ BeiBitte(i, m) \/ BeiAbgelehnt(i, m) \/ BeiStart(i, m) \/ BeiAck(i, m)
          \/ BeiAbbruch(i, m) \/ BeiTeil(i, m) \/ BeiEnde(i, m) \/ BeiFremdem(i, m)
    /\ UNCHANGED <<verbunden, naechste, stille>>

\* Two minutes without a part.
Stille(i) ==
    /\ ziel[i].still /\ stille < MaxStille
    /\ stille' = stille + 1
    /\ AbbrechenZiel(i)
    /\ UNCHANGED <<verbunden, auf, ab, lauf, neustart, uhr, naechste, risse>>

\* The timer of a replaced target ends the one there is before its time; where
\* there is none it only sets the phase.
AlteStille(i) ==
    /\ uhr[i] /\ stille < MaxStille
    /\ uhr' = [uhr EXCEPT ![i] = FALSE]
    /\ stille' = stille + 1
    /\ AbbrechenZiel(i)
    /\ UNCHANGED <<verbunden, auf, ab, lauf, neustart, naechste, risse>>

-----------------------------------------------------------------------------
(* The gateway, the lines, the life of an AVA. *)

Weiterleiten(i) ==
    /\ auf[i] # <<>>
    /\ auf' = [auf EXCEPT ![i] = Tail(@)]
    /\ LET m == Head(auf[i])
       IN \/ /\ verbunden[m.gegen]
             /\ ab' = [ab EXCEPT ![m.gegen] = Append(@, Nachricht(m.art, i, m.id, m.n))]
          \/ /\ ~verbunden[m.gegen]
             /\ ab' = [ab EXCEPT ![i] = Append(@, Nachricht("fehler", m.gegen, 0, 0))]
          \/ ~verbunden[m.gegen] /\ UNCHANGED ab
    /\ UNCHANGED <<verbunden, stand, ziel, lauf, eingang, neustart, uhr, rest>>

Getrennt(i) ==
    /\ verbunden' = [verbunden EXCEPT ![i] = FALSE]
    /\ auf' = [auf EXCEPT ![i] = <<>>] /\ ab' = [ab EXCEPT ![i] = <<>>]

Reisst(i) ==
    /\ verbunden[i] /\ risse < MaxRisse
    /\ risse' = risse + 1
    /\ Getrennt(i)
    /\ UNCHANGED <<stand, ziel, lauf, eingang, neustart, uhr, naechste, stille>>

Verbinden(i) ==
    /\ ~verbunden[i]
    /\ verbunden' = [verbunden EXCEPT ![i] = TRUE]
    /\ UNCHANGED <<auf, ab, stand, ziel, lauf, eingang, neustart, uhr, rest>>

\* AVA starts anew.  A package that is ready is applied.
Startet(i) ==
    /\ Getrennt(i)
    /\ stand' = [stand EXCEPT ![i] = "bereit"]
    /\ ziel' = [ziel EXCEPT ![i] = KeinZiel] /\ lauf' = [lauf EXCEPT ![i] = KeinLauf]
    /\ neustart' = [neustart EXCEPT ![i] = FALSE] /\ uhr' = [uhr EXCEPT ![i] = FALSE]
    /\ eingang' = [eingang EXCEPT ![i] = IF @.bereit THEN KeinEingang ELSE @]

Neustart(i) == neustart[i] /\ Startet(i) /\ UNCHANGED rest

Absturz(i) ==
    /\ risse < MaxRisse
    /\ risse' = risse + 1
    /\ Startet(i)
    /\ UNCHANGED <<naechste, stille>>

Next ==
    \E i \in Instanz :
        \/ \E j \in Instanz : Holen(i, j) \/ Senden(i, j)
        \/ HolenOhneRelais(i)
        \/ TeilSenden(i) \/ LaufBricht(i) \/ EndeSenden(i)
        \/ Empfange(i) \/ Stille(i) \/ AlteStille(i) \/ Weiterleiten(i)
        \/ Reisst(i) \/ Verbinden(i) \/ Neustart(i) \/ Absturz(i)

Spec == Init /\ [][Next]_vars

\* Timers run out, the gateway and the event loop go on, a client reconnects.
\* The window is looked at every five seconds even when no acknowledgement comes.
Fairness ==
    \A i \in Instanz :
        /\ WF_vars(TeilSenden(i)) /\ WF_vars(LaufBricht(i)) /\ WF_vars(EndeSenden(i))
        /\ WF_vars(Empfange(i)) /\ WF_vars(Stille(i)) /\ WF_vars(Weiterleiten(i))
        /\ WF_vars(Verbinden(i)) /\ WF_vars(Neustart(i))

FairSpec == Spec /\ Fairness

\* Only the target's timer is sure to run out: all that ZielEndet needs.
StilleSpec == Spec /\ \A i \in Instanz : WF_vars(Stille(i))

-----------------------------------------------------------------------------
(* Properties. *)

Id == 0..MaxUmzuege
NachrichtTyp == [art : Art, gegen : Instanz, id : Id, n : 0..Teile]

TypeInv ==
    /\ verbunden \in [Instanz -> BOOLEAN]
    /\ \A i \in Instanz : auf[i] \in Seq(NachrichtTyp) /\ ab[i] \in Seq(NachrichtTyp)
    /\ stand \in [Instanz -> UmzugPhase] /\ neustart \in [Instanz -> BOOLEAN]
    /\ uhr \in [Instanz -> BOOLEAN]
    /\ ziel \in [Instanz -> [id : Id, quelle : Instanz \cup {Niemand}, erwartet : 0..Teile, still : BOOLEAN]]
    /\ lauf \in [Instanz -> [id : Id, ziel : Instanz \cup {Niemand}, n : 0..Teile, bestaetigt : 0..Teile,
                             abbruch : BOOLEAN]]
    /\ \A i \in Instanz : /\ eingang[i].id \in Id /\ eingang[i].bereit \in BOOLEAN
                          /\ eingang[i].teile \in Seq(0..Teile)
    /\ naechste \in 1..MaxUmzuege + 1 /\ stille \in 0..MaxStille /\ risse \in 0..MaxRisse

\* Step 4 of the protocol (umzug.ts:8).  An inbox is ready only with the whole
\* package in it, every part once and in order, whatever lines and AVAs broke.
NurGanz ==
    \A i \in Instanz : eingang[i].bereit => eingang[i].teile = [k \in 1..Teile |-> k - 1]

\* umzug.ts:230.  The parts are cuts through a stream of entries: what the reader
\* of the inbox gets is a piece from the stream's beginning, with no gap, so that
\* it never takes the middle of a file for the head of an entry.
OhneLuecke ==
    \A i \in Instanz : ziel[i].id # 0 => eingang[i].teile = [k \in 1..ziel[i].erwartet |-> k - 1]

\* Whatever happens to the source and the lines, the target stops waiting.
ZielEndet == \A i \in Instanz : ziel[i].id # 0 ~> ziel[i].id = 0

\* The window, the acknowledgements and the counts never lock a move: as long as
\* it is the only one, nothing has broken and no timer has run out, something is on its way, or a
\* source can go on, while a target waits (every such step brings the move on).
NieVerklemmt ==
    risse = 0 /\ stille = 0 /\ naechste <= 2 =>
        \A i \in Instanz : ziel[i].id # 0 =>
            \E j \in Instanz : \/ auf[j] # <<>> \/ ab[j] # <<>>
                               \/ lauf[j].id # 0 /\ (Frei(j) \/ lauf[j].abbruch \/ lauf[j].n = Teile)

\* docs/PLAN_AVA_CLOUD.md:875 "Damit laesst sich das Betriebsmodell jederzeit
\* wechseln": a source does not send for ever.
QuelleEndet == \A i \in Instanz : lauf[i].id # 0 ~> lauf[i].id = 0

\* The same of an AVA that has asked another to fetch.
BitteEndet == \A i \in Instanz : stand[i] = "wartet" ~> stand[i] # "wartet"

\* umzug.ts:137 and 162 "Es laeuft bereits ein Umzug.": an AVA is not both the
\* source and the target of moves that run.
NichtZugleich == \A i \in Instanz : ziel[i].id = 0 \/ lauf[i].id = 0

\* umzug.ts:246 "Uebertragen. AVA startet neu und uebernimmt den Stand.": a package
\* that is ready stays so until that start.
BereitBleibt ==
    [][\A i \in Instanz : eingang[i].bereit /\ ~eingang'[i].bereit => ~neustart'[i]]_vars
=============================================================================
