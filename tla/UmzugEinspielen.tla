---------------------------- MODULE UmzugEinspielen ----------------------------
(***************************************************************************)
(* A received move ("Umzug") is applied when AVA starts: wendeUmzugAn of   *)
(* services/desktop/src/core/umzug/umzug.ts, called by core/bootstrap.ts,  *)
(* which goes on when it throws.  The target's entries are put aside into  *)
(* .umzug-alt, the package's entries take their place, files bound to the  *)
(* instance are fetched back, databases are imported, and the inbox        *)
(* .umzug-eingang is deleted.  Every rename is a step, AVA may be killed   *)
(* between any two, any of them may fail, and the next start begins anew.  *)
(*                                                                         *)
(* A name is a top-level entry of the data directory that moves; of those  *)
(* that never move (NICHT_UMZIEHEN) nothing is touched.  .umzug-alt holds  *)
(* one former state at most, rmSync of it is one step: none but the code   *)
(* here reads it, and a start that finds half of it deletes the rest.      *)
(***************************************************************************)
EXTENDS Naturals

CONSTANTS
    Name,            \* entries of the data directory
    Gebunden,        \* directories with a file bound to the instance (NICHT_UMZIEHEN_PFADE)
    MaxStoerungen    \* bound: kills and failing steps

ASSUME GebundenAssumption == Gebunden \subseteq Name
ASSUME StoerungenAssumption == MaxStoerungen \in Nat

VARIABLES
    pc,          \* where AVA is
    offen,       \* names the loop at pc has still to visit
    daten,       \* data directory: what is under a name
    alt,         \* .umzug-alt: the same
    eingang,     \* .umzug-eingang: the package's files and directories
    dumps,       \* .umzug-eingang: the package's database dumps
    marke,       \* .umzug-eingang/bereit.json
    manifest,    \* .umzug-eingang/<id>/manifest.json is there
    bindung,     \* where the bound file of a directory is
    fertig,      \* umzug-letzter.json names this move
    anlauf,      \* history: how often applying has begun, 3 for more
    stoerungen,
    vorher, paket, datenbanken   \* the move: names the target had, the package has, as dump

umzug == <<vorher, paket, datenbanken>>
vars == <<pc, offen, daten, alt, eingang, dumps, marke, manifest, bindung, fertig, anlauf, stoerungen, umzug>>

Phase == {"aus", "beiseite", "einsetzen", "zurueck", "datenbank", "aufraeumen", "letzter", "laeuft"}
Inhalt == {"nichts", "vorher", "paket", "frisch"}

\* bereit.json may have been cut short by a crash of the transfer.
Init ==
    /\ pc = "aus" /\ offen = {} /\ fertig = FALSE /\ anlauf = 0 /\ stoerungen = 0
    /\ vorher \in SUBSET Name /\ paket \in SUBSET Name /\ datenbanken \in SUBSET (Name \ (paket \cup Gebunden))
    /\ marke \in {"da", "kaputt"} /\ manifest = TRUE
    /\ daten = [n \in Name |-> IF n \in vorher THEN "vorher" ELSE "nichts"]
    /\ alt = [n \in Name |-> "nichts"]
    /\ eingang = [n \in Name |-> IF n \in paket THEN "paket" ELSE "nichts"]
    /\ dumps = datenbanken
    /\ bindung = [n \in Gebunden |-> IF n \in vorher THEN "daten" ELSE "fehlt"]

Belegt(f) == {n \in Name : f[n] # "nichts"}

\* The bound file goes with its directory.
Mit(n, wohin) == IF n \in Gebunden /\ bindung[n] \in {"daten", "alt"}
                 THEN [bindung EXCEPT ![n] = wohin] ELSE bindung

-----------------------------------------------------------------------------
(* A start of AVA. *)

\* No inbox: nothing to do.  No manifest: JSON.parse(readFileSync) throws.
StartOhne ==
    /\ pc = "aus" /\ (marke = "fehlt" \/ (marke = "da" /\ ~manifest))
    /\ pc' = "laeuft"
    /\ UNCHANGED <<offen, daten, alt, eingang, dumps, marke, manifest, bindung, fertig, anlauf, stoerungen, umzug>>

\* bereit.json is no JSON: the inbox is deleted.
StartKaputt ==
    /\ pc = "aus" /\ marke = "kaputt"
    /\ pc' = "laeuft" /\ marke' = "fehlt" /\ manifest' = FALSE /\ dumps' = {}
    /\ eingang' = [n \in Name |-> "nichts"]
    /\ UNCHANGED <<offen, daten, alt, bindung, fertig, anlauf, stoerungen, umzug>>

\* .umzug-alt is deleted, with what an earlier attempt has put there.
AltGeleert == [n \in Name |-> "nichts"]

StartEinspielen ==
    /\ pc = "aus" /\ marke = "da" /\ manifest
    /\ alt' = AltGeleert
    /\ bindung' = [n \in Gebunden |-> IF bindung[n] = "alt" THEN "weg" ELSE bindung[n]]
    /\ pc' = "beiseite" /\ offen' = Belegt(daten)
    /\ anlauf' = IF anlauf < 3 THEN anlauf + 1 ELSE 3
    /\ UNCHANGED <<daten, eingang, dumps, marke, manifest, fertig, stoerungen, umzug>>

\* Mutant of Beiseite: the former entry is deleted.
Beiseite_Loescht(n) ==
    /\ pc = "beiseite" /\ n \in offen
    /\ offen' = offen \ {n}
    /\ daten' = [daten EXCEPT ![n] = "nichts"]
    /\ bindung' = Mit(n, "alt")
    /\ UNCHANGED <<pc, alt, eingang, dumps, marke, manifest, fertig, anlauf, stoerungen, umzug>>

Beiseite(n) ==
    /\ pc = "beiseite" /\ n \in offen
    /\ offen' = offen \ {n}
    /\ alt' = [alt EXCEPT ![n] = daten[n]]
    /\ daten' = [daten EXCEPT ![n] = "nichts"]
    /\ bindung' = Mit(n, "alt")
    /\ UNCHANGED <<pc, eingang, dumps, marke, manifest, fertig, anlauf, stoerungen, umzug>>

\* A rename that fails is logged, the entry stays.
BeiseiteScheitert(n) ==
    /\ pc = "beiseite" /\ n \in offen /\ stoerungen < MaxStoerungen
    /\ stoerungen' = stoerungen + 1
    /\ offen' = offen \ {n}
    /\ UNCHANGED <<pc, daten, alt, eingang, dumps, marke, manifest, bindung, fertig, anlauf, umzug>>

\* Mutant of Einsetzen: what is still there is exchanged, not replaced.
Einsetzen_Tauscht(n) ==
    /\ pc = "einsetzen" /\ n \in offen
    /\ daten[n] = "nichts" \/ n \notin Gebunden
    /\ offen' = offen \ {n}
    /\ daten' = [daten EXCEPT ![n] = eingang[n]]
    /\ eingang' = [eingang EXCEPT ![n] = daten[n]]
    /\ UNCHANGED <<pc, alt, dumps, marke, manifest, bindung, fertig, anlauf, stoerungen, umzug>>

\* An entry of the package is put in place.  A file replaces one that is still
\* there, a directory does not: renameSync throws.
Einsetzen(n) ==
    /\ pc = "einsetzen" /\ n \in offen
    /\ daten[n] = "nichts" \/ n \notin Gebunden
    /\ offen' = offen \ {n}
    /\ daten' = [daten EXCEPT ![n] = eingang[n]]
    /\ eingang' = [eingang EXCEPT ![n] = "nichts"]
    /\ UNCHANGED <<pc, alt, dumps, marke, manifest, bindung, fertig, anlauf, stoerungen, umzug>>

EinsetzenWirft(n) ==
    /\ pc = "einsetzen" /\ n \in offen /\ daten[n] # "nichts"
    /\ pc' = "laeuft" /\ offen' = {}
    /\ UNCHANGED <<daten, alt, eingang, dumps, marke, manifest, bindung, fertig, anlauf, stoerungen, umzug>>

\* A bound file comes back from .umzug-alt; its directory is made if need be.
Zurueckholen(n) ==
    /\ pc = "zurueck" /\ n \in offen
    /\ offen' = offen \ {n}
    /\ bindung' = [bindung EXCEPT ![n] = "daten"]
    /\ daten' = [daten EXCEPT ![n] = IF @ = "nichts" THEN "frisch" ELSE @]
    /\ UNCHANGED <<pc, alt, eingang, dumps, marke, manifest, fertig, anlauf, stoerungen, umzug>>

\* Mutant of Datenbank: imported first, emptied then.
Datenbank_LeertDanach(n) ==
    /\ pc = "datenbank" /\ n \in offen
    /\ offen' = offen \ {n}
    /\ daten' = [daten EXCEPT ![n] = "frisch"]
    /\ UNCHANGED <<pc, alt, eingang, dumps, marke, manifest, bindung, fertig, anlauf, stoerungen, umzug>>

\* The directory is emptied, then the dump read and imported.
Datenbank(n) ==
    /\ pc = "datenbank" /\ n \in offen
    /\ offen' = offen \ {n}
    /\ daten' = [daten EXCEPT ![n] = IF n \in dumps THEN "paket" ELSE "frisch"]
    /\ UNCHANGED <<pc, alt, eingang, dumps, marke, manifest, bindung, fertig, anlauf, stoerungen, umzug>>

\* An import that fails is logged.
DatenbankScheitert(n) ==
    /\ pc = "datenbank" /\ n \in offen /\ stoerungen < MaxStoerungen
    /\ stoerungen' = stoerungen + 1
    /\ offen' = offen \ {n}
    /\ \/ daten' = [daten EXCEPT ![n] = "frisch"]
       \/ daten' = daten
    /\ UNCHANGED <<pc, alt, eingang, dumps, marke, manifest, bindung, fertig, anlauf, umzug>>

\* Mutant of NaechsteSchleife: bound files are looked for in the data directory.
NaechsteSchleife_FalscherOrt ==
    /\ pc \in {"beiseite", "einsetzen", "zurueck", "datenbank"} /\ offen = {}
    /\ \/ pc = "beiseite"  /\ pc' = "einsetzen"  /\ offen' = Belegt(eingang)
       \/ pc = "einsetzen" /\ pc' = "zurueck"    /\ offen' = {n \in Gebunden : bindung[n] = "daten"}
       \/ pc = "zurueck"   /\ pc' = "datenbank"  /\ offen' = datenbanken
       \/ pc = "datenbank" /\ pc' = "aufraeumen" /\ offen' = {}
    /\ UNCHANGED <<daten, alt, eingang, dumps, marke, manifest, bindung, fertig, anlauf, stoerungen, umzug>>

\* The loops follow each other; rmSync of the inbox comes after the last.
NaechsteSchleife ==
    /\ pc \in {"beiseite", "einsetzen", "zurueck", "datenbank"} /\ offen = {}
    /\ \/ pc = "beiseite"  /\ pc' = "einsetzen"  /\ offen' = Belegt(eingang)
       \/ pc = "einsetzen" /\ pc' = "zurueck"    /\ offen' = {n \in Gebunden : bindung[n] = "alt"}
       \/ pc = "zurueck"   /\ pc' = "datenbank"  /\ offen' = datenbanken
       \/ pc = "datenbank" /\ pc' = "aufraeumen" /\ offen' = {}
    /\ UNCHANGED <<daten, alt, eingang, dumps, marke, manifest, bindung, fertig, anlauf, stoerungen, umzug>>

\* rmSync deletes one file after the other, in the directory's order.
Aufraeumen ==
    /\ pc = "aufraeumen"
    /\ \/ marke = "da" /\ marke' = "fehlt" /\ UNCHANGED <<manifest, dumps>>
       \/ manifest /\ manifest' = FALSE /\ UNCHANGED <<marke, dumps>>
       \/ \E n \in dumps : dumps' = dumps \ {n} /\ UNCHANGED <<marke, manifest>>
    /\ pc' = IF marke' = "fehlt" /\ ~manifest' /\ dumps' = {} THEN "letzter" ELSE pc
    /\ UNCHANGED <<offen, daten, alt, eingang, bindung, fertig, anlauf, stoerungen, umzug>>

Fertig ==
    /\ pc = "letzter"
    /\ pc' = "laeuft" /\ fertig' = TRUE
    /\ UNCHANGED <<offen, daten, alt, eingang, dumps, marke, manifest, bindung, anlauf, stoerungen, umzug>>

-----------------------------------------------------------------------------
(* The rest of AVA's life. *)

\* bootstrap catches what is thrown, and AVA runs.
Fehler ==
    /\ pc \notin {"aus", "laeuft"} /\ stoerungen < MaxStoerungen
    /\ stoerungen' = stoerungen + 1
    /\ pc' = "laeuft" /\ offen' = {}
    /\ UNCHANGED <<daten, alt, eingang, dumps, marke, manifest, bindung, fertig, anlauf, umzug>>

Absturz ==
    /\ pc \notin {"aus", "laeuft"} /\ stoerungen < MaxStoerungen
    /\ stoerungen' = stoerungen + 1
    /\ pc' = "aus" /\ offen' = {}
    /\ UNCHANGED <<daten, alt, eingang, dumps, marke, manifest, bindung, fertig, anlauf, umzug>>

\* The stores make the directories they miss.
StoreLegtAn(n) ==
    /\ pc = "laeuft" /\ daten[n] = "nichts"
    /\ daten' = [daten EXCEPT ![n] = "frisch"]
    /\ UNCHANGED <<pc, offen, alt, eingang, dumps, marke, manifest, bindung, fertig, anlauf, stoerungen, umzug>>

Beenden ==
    /\ pc = "laeuft"
    /\ pc' = "aus"
    /\ UNCHANGED <<offen, daten, alt, eingang, dumps, marke, manifest, bindung, fertig, anlauf, stoerungen, umzug>>

Next ==
    \/ StartOhne \/ StartKaputt \/ StartEinspielen
    \/ \E n \in Name : \/ Beiseite(n) \/ BeiseiteScheitert(n) \/ Einsetzen(n) \/ EinsetzenWirft(n)
                       \/ Zurueckholen(n) \/ Datenbank(n) \/ DatenbankScheitert(n) \/ StoreLegtAn(n)
    \/ NaechsteSchleife \/ Aufraeumen \/ Fertig
    \/ Fehler \/ Absturz \/ Beenden

Spec == Init /\ [][Next]_vars

-----------------------------------------------------------------------------
(* Properties. *)

TypeInv ==
    /\ pc \in Phase /\ offen \subseteq Name
    /\ daten \in [Name -> Inhalt] /\ alt \in [Name -> Inhalt]
    /\ eingang \in [Name -> {"nichts", "paket"}]
    /\ dumps \subseteq datenbanken /\ marke \in {"da", "kaputt", "fehlt"} /\ manifest \in BOOLEAN
    /\ bindung \in [Gebunden -> {"daten", "alt", "fehlt", "weg"}]
    /\ fertig \in BOOLEAN /\ anlauf \in 0..3 /\ stoerungen \in 0..MaxStoerungen
    /\ vorher \subseteq Name /\ paket \subseteq Name /\ datenbanken \subseteq Name

\* Whatever kills or breaks the first two attempts, no file or directory of the
\* package is gone from the target: it is in place, in the inbox or put aside.
\* (A third attempt deletes what the second has put aside.)
PaketNichtVerloren ==
    anlauf \in {1, 2} => \A n \in paket : "paket" \in {daten[n], alt[n], eingang[n]}

\* umzug.ts:320: "Fehler hier verhindern den Start nicht; der alte Stand bleibt
\* dann unter .umzug-alt/ erhalten".
AlterStandBleibt == \A n \in vorher : "vorher" \in {daten[n], alt[n]}

\* paket.ts:75: what is bound to the instance is kept on the target.  Its files
\* are never deleted, and back in their directories when the move is done.
GebundenBleibt ==
    \A n \in Gebunden : bindung[n] # "weg" /\ (fertig => bindung[n] # "alt")

\* umzug.ts:8: the start replaces the data directory by the package.  When
\* umzug-letzter.json says so, the package's files and directories are in place.
FertigIstVollstaendig == fertig => \A n \in paket : daten[n] = "paket"

\* While nothing is killed and no step fails but where the data make it fail, the
\* move is whole at every step: the former state is kept, what is bound to the
\* instance is kept, and at the end everything is in place, databases included.
UngestoertGanz ==
    stoerungen = 0 => /\ AlterStandBleibt /\ GebundenBleibt /\ FertigIstVollstaendig
                      /\ fertig => \A n \in datenbanken : daten[n] = "paket"
=============================================================================
