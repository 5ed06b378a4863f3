---------------------------- MODULE DesktopProofs ----------------------------
(***************************************************************************)
(* Desktop for any names, any finite number of other devices and any number  *)
(* of launches: the settings that come back, and the name on the network.    *)
(***************************************************************************)
EXTENDS Desktop, TLAPS, FiniteSetTheorems

--------------------------------------------------------------------------
(* The inductive invariant.                                                *)

\* A service belongs to the window that started it, and the name, which cannot
\* be edited meanwhile, is the one that was saved when it started.
ServiceOK ==
  service.at # "none" =>
    /\ app.up /\ app.running /\ ~ app.pending
    /\ service.id = starts /\ starts > 0
    /\ service.name = app.name.text
    /\ kept # Unknown => kept.name = app.name.text

\* What is known to be kept is what the file would give.
KeptOK == kept # Unknown => Load(file) = kept

\* What the browser has yet to hear of advertisement i.
Heard(i) == {queue[n].said : n \in {m \in DOMAIN queue : queue[m].of = i}}

\* Nothing is said of a service before it advertises itself; from then to its
\* end, only its name is.
AdvertOK(i) ==
  /\ i > starts \/ (service.at = "starting" /\ service.id = i) =>
       lan[i] = Absent /\ nearby[i] = Absent /\ Heard(i) = {}
  /\ service.at = "on" /\ service.id = i =>
       /\ lan[i] = service.name /\ Heard(i) \subseteq {service.name}
       /\ ~ app.name.padded => nearby[i] = Absent

Inv == TypeOK /\ ServiceOK /\ KeptOK /\ \A i \in Own : AdvertOK(i)

--------------------------------------------------------------------------
(* The data.                                                               *)

Said == Names \cup PeerNames \cup {Hidden, Absent}
Events == [of : Adverts, said : Said]

LEMMA Constants ==
  /\ Default \in Names /\ MaxStarts \in Nat /\ Own \subseteq Nat
  /\ \A p \in Peers : p \notin Own
BY DefaultAssumption, NetworkAssumption DEF Own

LEMMA AppShape ==
  ASSUME TypeOK
  PROVE  /\ app.up \in BOOLEAN /\ app.auto \in BOOLEAN /\ app.pending \in BOOLEAN
         /\ app.running \in BOOLEAN /\ app.browsing \in BOOLEAN
         /\ app.name \in Typed /\ app.name.text \in Names \cup {Unfit}
         /\ app.name.padded \in BOOLEAN
<1>1. app.name \in Typed
  BY DEF TypeOK
<1>2. app.name.text \in Names \cup {Unfit} /\ app.name.padded \in BOOLEAN
  <2>1. CASE app.name \in [text : Names, padded : BOOLEAN]
    BY <2>1
  <2>2. CASE app.name = Field(Unfit)
    BY <2>2 DEF Field
  <2> QED
    BY <1>1, <2>1, <2>2 DEF Typed
<1> QED
  BY <1>1, <1>2 DEF TypeOK

LEMMA Loaded ==
  ASSUME NEW f \in Saved \cup {Unreadable}
  PROVE  /\ Load(f) \in Saved /\ Load(f).name \in Names \cup {Unfit}
         /\ Load(f).auto \in BOOLEAN /\ Field(Load(f).name) \in Typed
<1>1. Load(f) \in Saved
  BY Constants DEF Load, Saved, DefaultSettings
<1> QED
  BY <1>1 DEF Saved, Typed, Field

\* The settings that are saved are those on display, and loading them gives them
\* back: a saved file is readable, or is what is not known to be kept.
LEMMA SavedSettings ==
  ASSUME TypeOK
  PROVE  /\ Settings \in Saved /\ Settings = [name |-> app.name.text, auto |-> app.auto]
         /\ Settings # Unknown => Load(Settings) = Settings
BY AppShape DEF Settings, Saved, Trim, Load, Unknown

LEMMA Saving ==
  ASSUME TypeOK, KeptOK, Save
  PROVE  /\ file' \in Saved \cup {Unreadable} /\ kept' \in Saved \cup {Unknown}
         /\ KeptOK' /\ (kept' # Unknown => kept'.name = app.name.text)
<1>1. CASE file' = Settings /\ kept' = [name |-> app.name.text, auto |-> app.auto]
  BY <1>1, SavedSettings DEF KeptOK, Unknown, Load
<1>2. CASE file' \in {file, Unreadable} /\ kept' = Unknown
  BY <1>2 DEF KeptOK, TypeOK
<1> QED
  BY <1>1, <1>2 DEF Save

--------------------------------------------------------------------------
(* The network.                                                            *)

\* What a change of one advertisement does.
LEMMA Advertising ==
  ASSUME TypeOK, NEW a \in Adverts, NEW said \in Said, Advertise(a, said)
  PROVE  /\ lan' \in [Adverts -> Said] /\ queue' \in Seq(Events)
         /\ lan'[a] = said /\ Heard(a)' \subseteq Heard(a) \cup {said}
         /\ \A b \in Adverts \ {a} : lan'[b] = lan[b] /\ Heard(b)' = Heard(b)
<1>1. lan \in [Adverts -> Said] /\ queue \in Seq(Events)
  BY DEF TypeOK, Said, Events
<1>2. lan' = [lan EXCEPT ![a] = said]
  BY DEF Advertise
<1>3. CASE queue' = queue
  BY <1>1, <1>2, <1>3 DEF Heard
<1>4. CASE queue' = Append(queue, Event(a, said))
  <2>1. Event(a, said) \in Events /\ Event(a, said).of = a /\ Event(a, said).said = said
    BY DEF Event, Events
  <2>2. /\ queue' \in Seq(Events) /\ Len(queue) \in Nat
        /\ DOMAIN queue = 1 .. Len(queue) /\ DOMAIN queue' = 1 .. Len(queue) + 1
        /\ queue'[Len(queue) + 1] = Event(a, said)
        /\ \A n \in 1 .. Len(queue) : queue'[n] = queue[n]
    BY <1>1, <1>4, <2>1
  <2>3. Heard(a)' \subseteq Heard(a) \cup {said}
    BY <2>1, <2>2 DEF Heard
  <2>4. ASSUME NEW b \in Adverts \ {a} PROVE Heard(b)' = Heard(b)
    <3>1. {m \in DOMAIN queue' : queue'[m].of = b} = {m \in DOMAIN queue : queue[m].of = b}
      BY <2>1, <2>2
    <3>2. \A n \in {m \in DOMAIN queue : queue[m].of = b} : queue'[n].said = queue[n].said
      BY <2>2
    <3> QED
      BY <3>1, <3>2 DEF Heard
  <2> QED
    BY <1>1, <1>2, <2>2, <2>3, <2>4
<1> QED
  BY <1>3, <1>4 DEF Advertise

\* A handler that leaves the window, the service and the table alone, while the
\* network says something new of an advertisement that is not the service's own.
LEMMA NetworkFrame ==
  ASSUME Inv, NEW a \in Adverts, NEW said \in Said, Advertise(a, said),
         UNCHANGED <<file, app, starts, service, nearby, kept>>,
         a \in Own => a <= starts /\ ~ (service.at \in {"starting", "on"} /\ service.id = a)
  PROVE  Inv'
<1>1. /\ lan' \in [Adverts -> Said] /\ queue' \in Seq(Events)
      /\ \A b \in Adverts \ {a} : lan'[b] = lan[b] /\ Heard(b)' = Heard(b)
  BY Advertising DEF Inv
<1>2. TypeOK'
  BY <1>1 DEF Inv, TypeOK, Said, Events
<1>3. ServiceOK' /\ KeptOK'
  BY DEF Inv, ServiceOK, KeptOK
<1>4. ASSUME NEW i \in Own PROVE AdvertOK(i)'
  <2>1. CASE i = a
    BY <2>1, Constants DEF AdvertOK, Inv, TypeOK
  <2>2. CASE i # a
    <3>1. lan'[i] = lan[i] /\ Heard(i)' = Heard(i)
      BY <1>1, <2>2 DEF Adverts
    <3> QED
      BY <3>1 DEF Inv, AdvertOK
  <2> QED
    BY <2>1, <2>2
<1> QED
  BY <1>2, <1>3, <1>4 DEF Inv

LEMMA PeerChangesInv ==
  ASSUME Inv, NEW p \in Peers, PeerChanges(p)
  PROVE  Inv'
<1>1. PICK said \in PeerNames \cup {Hidden, Absent} : Advertise(p, said)
  BY DEF PeerChanges
<1>2. said \in Said /\ p \in Adverts /\ p \notin Own
  BY Constants DEF Said, Adverts
<1> QED
  BY <1>1, <1>2, NetworkFrame DEF PeerChanges

LEMMA ExpireInv ==
  ASSUME Inv, NEW i \in Own, Expire(i)
  PROVE  Inv'
<1>1. AdvertOK(i) /\ i \in Adverts /\ Absent \in Said /\ i \in Nat /\ starts \in Nat
  BY Constants DEF Inv, TypeOK, Adverts, Said
<1>2. i <= starts /\ ~ (service.at \in {"starting", "on"} /\ service.id = i)
  BY <1>1 DEF AdvertOK, Expire
<1> QED
  BY <1>1, <1>2, NetworkFrame DEF Expire

--------------------------------------------------------------------------
(* The window.                                                             *)

\* A handler of a window without a service, or one that neither touches the
\* service nor its name.
LEMMA WindowFrame ==
  ASSUME Inv, UNCHANGED <<starts, lan>>, TypeOK', ServiceOK', KeptOK',
         service'.at = "none" \/ (UNCHANGED service /\ app'.name = app.name),
         \A i \in Own : /\ Heard(i)' \subseteq Heard(i)
                        /\ nearby'[i] \in {nearby[i], Absent}
  PROVE  Inv'
<1>1. ASSUME NEW i \in Own PROVE AdvertOK(i)'
  <2>1. AdvertOK(i) /\ Heard(i)' \subseteq Heard(i) /\ nearby'[i] \in {nearby[i], Absent}
    BY DEF Inv
  <2>2. i > starts => lan[i] = Absent /\ nearby'[i] = Absent /\ Heard(i)' = {}
    BY <2>1 DEF AdvertOK
  <2>3. CASE service'.at = "none"
    BY <2>2, <2>3 DEF AdvertOK
  <2>4. CASE UNCHANGED service /\ app'.name = app.name
    BY <2>1, <2>2, <2>4 DEF AdvertOK
  <2> QED
    BY <2>3, <2>4
<1> QED
  BY <1>1 DEF Inv

\* What is there when a window opens: an event for each advertisement.
LEMMA ThereIs ==
  ASSUME TypeOK, NEW there \in Orders({a \in Adverts : lan[a] # Absent}), NEW q,
         q = [i \in DOMAIN there |-> Event(there[i], lan[there[i]])]
  PROVE  /\ q \in Seq(Events)
         /\ \A i \in DOMAIN q : lan[q[i].of] # Absent
<1> DEFINE S == {a \in Adverts : lan[a] # Absent}
<1>1. IsFiniteSet(S)
  <2>1. IsFiniteSet(Peers) /\ IsFiniteSet(Own)
    BY NetworkAssumption, FS_Interval DEF Own
  <2>2. IsFiniteSet(Adverts)
    BY <2>1, FS_Union DEF Adverts
  <2> QED
    BY <2>2, FS_Subset
<1>2. Cardinality(S) \in Nat
  BY <1>1, FS_CardinalityType
<1>3. there \in [1 .. Cardinality(S) -> S]
  BY DEF Orders
<1>4. \A i \in 1 .. Cardinality(S) :
        there[i] \in Adverts /\ lan[there[i]] \in Said /\ lan[there[i]] # Absent
  BY <1>3 DEF TypeOK, Said
<1>5. q = [i \in 1 .. Cardinality(S) |-> Event(there[i], lan[there[i]])]
  BY <1>3
<1>6. \A i \in 1 .. Cardinality(S) : Event(there[i], lan[there[i]]) \in Events
  BY <1>4 DEF Event, Events
<1>7. q \in [1 .. Cardinality(S) -> Events]
  BY <1>5, <1>6
<1>8. q \in Seq(Events)
  <2> DEFINE n == Cardinality(S)
  <2>1. n \in Nat /\ q \in [1 .. n -> Events]
    BY <1>2, <1>7
  <2> HIDE DEF n
  <2> QED
    BY <2>1
<1>9. \A i \in DOMAIN q : lan[q[i].of] # Absent
  BY <1>4, <1>5 DEF Event
<1> QED
  BY <1>8, <1>9

LEMMA LaunchInv ==
  ASSUME Inv, Launch
  PROVE  Inv'
<1>1. TypeOK /\ ServiceOK /\ KeptOK /\ ~ app.up /\ starts \in Nat
  BY DEF Inv, TypeOK, Launch
<1>2. service.at = "none"
  BY <1>1 DEF ServiceOK
<1>3. PICK read \in {file, Unreadable}, browsing \in BOOLEAN :
        /\ app' = [up |-> TRUE, name |-> Field(Load(read).name),
                   auto |-> Load(read).auto, pending |-> Load(read).auto,
                   running |-> FALSE, browsing |-> browsing]
        /\ \E there \in Orders({a \in Adverts : lan[a] # Absent}) :
             queue' = IF browsing
                        THEN [i \in DOMAIN there |-> Event(there[i], lan[there[i]])]
                        ELSE <<>>
        /\ kept' = IF read = file THEN Load(file) ELSE Unknown
  BY DEF Launch
<1>4. UNCHANGED <<file, service, starts, lan>> /\ nearby' = Empty
  BY DEF Launch
<1>5. file \in Saved \cup {Unreadable} /\ read \in Saved \cup {Unreadable}
  BY <1>1 DEF TypeOK
<1>6. app' \in [up : BOOLEAN, name : Typed, auto : BOOLEAN, pending : BOOLEAN,
                running : BOOLEAN, browsing : BOOLEAN]
  BY <1>3, <1>5, Loaded
<1>7. kept' \in Saved \cup {Unknown} /\ KeptOK'
  BY <1>3, <1>4, <1>5, Loaded DEF KeptOK
<1>8. queue' \in Seq(Events) /\ \A i \in DOMAIN queue' : lan[queue'[i].of] # Absent
  <2>1. PICK there \in Orders({a \in Adverts : lan[a] # Absent}) :
          queue' = IF browsing
                     THEN [i \in DOMAIN there |-> Event(there[i], lan[there[i]])]
                     ELSE <<>>
    BY <1>3
  <2>2. CASE browsing
    BY <1>1, <2>1, <2>2, ThereIs
  <2>3. CASE ~ browsing
    BY <2>1, <2>3
  <2> QED
    BY <2>2, <2>3
<1>9. nearby' \in [Adverts -> Names \cup PeerNames \cup {Absent}]
  BY <1>4 DEF Empty
<1>10. TypeOK'
  BY <1>1, <1>4, <1>6, <1>7, <1>8, <1>9 DEF TypeOK, Events, Said
<1>11. ServiceOK'
  BY <1>2, <1>4 DEF ServiceOK
<1>12. ASSUME NEW i \in Own PROVE AdvertOK(i)'
  <2>1. nearby'[i] = Absent /\ AdvertOK(i)
    BY <1>4 DEF Empty, Adverts, Inv
  <2>2. i > starts => lan[i] = Absent /\ Heard(i)' = {}
    BY <1>8, <2>1 DEF AdvertOK, Heard
  <2> QED
    BY <1>2, <1>4, <2>1, <2>2 DEF AdvertOK
<1> QED
  BY <1>7, <1>10, <1>11, <1>12 DEF Inv

LEMMA GoneInv ==
  ASSUME Inv, Gone, KeptOK', file' \in Saved \cup {Unreadable}, kept' \in Saved \cup {Unknown}
  PROVE  Inv'
<1>1. /\ app' = Asleep /\ service' = NoService /\ queue' = <<>> /\ nearby' = Empty
      /\ UNCHANGED <<starts, lan>>
  BY DEF Gone
<1>2. Asleep \in [up : BOOLEAN, name : Typed, auto : BOOLEAN, pending : BOOLEAN,
                  running : BOOLEAN, browsing : BOOLEAN]
  BY Constants DEF Asleep, Field, Typed
<1>3. NoService \in [at : {"none", "starting", "on", "ended"}, name : Names,
                     id : 0..MaxStarts, stop : BOOLEAN]
  BY Constants DEF NoService
<1>4. TypeOK'
  BY <1>1, <1>2, <1>3 DEF Inv, TypeOK, Empty
<1>5. service'.at = "none"
  BY <1>1 DEF NoService
<1>6. \A i \in Own : Heard(i)' = {} /\ nearby'[i] = Absent
  BY <1>1 DEF Heard, Empty, Adverts
<1>7. ServiceOK'
  BY <1>5 DEF ServiceOK
<1> QED
  BY <1>1, <1>4, <1>5, <1>6, <1>7, WindowFrame

LEMMA ExitInv ==
  ASSUME Inv, Exit \/ CrashWhileSaving
  PROVE  Inv'
<1>1. KeptOK' /\ file' \in Saved \cup {Unreadable} /\ kept' \in Saved \cup {Unknown}
  <2>1. CASE Exit
    BY <2>1 DEF Exit, Inv, TypeOK, KeptOK
  <2>2. CASE CrashWhileSaving
    BY <2>2 DEF CrashWhileSaving, KeptOK
  <2> QED
    BY <2>1, <2>2
<1> QED
  BY <1>1, GoneInv DEF Exit, CrashWhileSaving

LEMMA SaveSettingsInv ==
  ASSUME Inv, SaveSettings
  PROVE  Inv'
<1>1. TypeOK /\ ServiceOK /\ KeptOK /\ Save
  BY DEF Inv, SaveSettings
<1>2. /\ file' \in Saved \cup {Unreadable} /\ kept' \in Saved \cup {Unknown}
      /\ KeptOK' /\ (kept' # Unknown => kept'.name = app.name.text)
  BY <1>1, Saving
<1>3. UNCHANGED <<app, service, starts, lan, queue, nearby>>
  BY DEF SaveSettings
<1>4. TypeOK' /\ ServiceOK'
  BY <1>1, <1>2, <1>3 DEF TypeOK, ServiceOK
<1>5. \A i \in Own : Heard(i)' = Heard(i) /\ nearby'[i] = nearby[i]
  BY <1>3 DEF Heard
<1> QED
  BY <1>2, <1>3, <1>4, <1>5, WindowFrame

\* Editing a field: the name only while nothing runs.
LEMMA EditInv ==
  ASSUME Inv, NEW new, app' = new, UNCHANGED <<file, service, starts, lan, queue, nearby, kept>>,
         new \in [up : BOOLEAN, name : Typed, auto : BOOLEAN, pending : BOOLEAN,
                  running : BOOLEAN, browsing : BOOLEAN],
         service.at # "none" =>
           new.up = app.up /\ new.running = app.running /\ new.name = app.name
             /\ new.pending = app.pending
  PROVE  Inv'
<1>1. TypeOK' /\ ServiceOK' /\ KeptOK'
  BY DEF Inv, TypeOK, ServiceOK, KeptOK
<1>2. \A i \in Own : Heard(i)' = Heard(i) /\ nearby'[i] = nearby[i]
  BY DEF Heard
<1> QED
  BY <1>1, <1>2, WindowFrame

LEMMA EditNameInv ==
  ASSUME Inv, NEW t \in Typed, EditName(t)
  PROVE  Inv'
<1>1. /\ app' = [app EXCEPT !.name = t] /\ ~ app.running
      /\ UNCHANGED <<file, service, starts, lan, queue, nearby, kept>>
  BY DEF EditName
<1>2. service.at = "none"
  BY <1>1 DEF Inv, ServiceOK
<1>3. app' \in [up : BOOLEAN, name : Typed, auto : BOOLEAN, pending : BOOLEAN,
                running : BOOLEAN, browsing : BOOLEAN]
  BY <1>1 DEF Inv, TypeOK
<1> QED
  BY <1>1, <1>2, <1>3, EditInv

LEMMA ToggleAutoInv ==
  ASSUME Inv, ToggleAuto
  PROVE  Inv'
<1>1. /\ app' = [app EXCEPT !.auto = ~ @]
      /\ UNCHANGED <<file, service, starts, lan, queue, nearby, kept>>
  BY DEF ToggleAuto
<1>2. /\ app' \in [up : BOOLEAN, name : Typed, auto : BOOLEAN, pending : BOOLEAN,
                   running : BOOLEAN, browsing : BOOLEAN]
      /\ app'.up = app.up /\ app'.running = app.running /\ app'.name = app.name
      /\ app'.pending = app.pending
  BY <1>1 DEF Inv, TypeOK
<1> QED
  BY <1>1, <1>2, EditInv

\* A window without a service starts one, under an identifier that is new.
LEMMA StartInv ==
  ASSUME Inv, service.at = "none", app.up, NEW started, Start(started),
         started \in [up : BOOLEAN, name : Typed, auto : BOOLEAN, pending : BOOLEAN,
                      running : BOOLEAN, browsing : BOOLEAN],
         started.up, ~ started.pending, started.name = app.name
  PROVE  Inv'
<1>1. TypeOK /\ ServiceOK /\ KeptOK /\ starts \in Nat /\ UNCHANGED <<lan, queue, nearby>>
  BY DEF Inv, TypeOK, Start
<1>2. \A i \in Own : Heard(i)' = Heard(i) /\ nearby'[i] = nearby[i]
  BY <1>1 DEF Heard
<1>3. CASE Refuse(started)
  <2>1. UNCHANGED <<file, service, starts, kept>> /\ app' = started
    BY <1>3 DEF Refuse
  <2>2. TypeOK' /\ ServiceOK' /\ KeptOK'
    BY <1>1, <2>1 DEF TypeOK, ServiceOK, KeptOK
  <2> QED
    BY <1>1, <1>2, <2>1, <2>2, WindowFrame
<1>4. CASE Trim(app.name) # Unfit /\ Spawn(started)
  <2>1. /\ starts < MaxStarts /\ starts' = starts + 1 /\ Save
        /\ service' = [at |-> "starting", name |-> app.name.text, id |-> starts + 1,
                       stop |-> FALSE]
        /\ app' = [started EXCEPT !.running = TRUE]
        /\ app.name.text \in Names
    BY <1>1, <1>4, AppShape DEF Spawn, Trim
  <2>2. /\ file' \in Saved \cup {Unreadable} /\ kept' \in Saved \cup {Unknown}
        /\ KeptOK' /\ (kept' # Unknown => kept'.name = app.name.text)
    BY <1>1, <2>1, Saving
  <2>3. starts' \in 0 .. MaxStarts /\ starts + 1 \in 0 .. MaxStarts
    BY <1>1, <2>1, Constants
  <2>4. service' \in [at : {"none", "starting", "on", "ended"}, name : Names,
                      id : 0..MaxStarts, stop : BOOLEAN]
    BY <2>1, <2>3
  <2>5. app' \in [up : BOOLEAN, name : Typed, auto : BOOLEAN, pending : BOOLEAN,
                  running : BOOLEAN, browsing : BOOLEAN]
        /\ app'.up /\ ~ app'.pending /\ app'.running /\ app'.name = app.name
    BY <2>1
  <2>6. TypeOK'
    BY <1>1, <2>2, <2>3, <2>4, <2>5 DEF TypeOK
  <2>7. ServiceOK'
    BY <1>1, <2>1, <2>2, <2>5 DEF ServiceOK
  <2>8. ASSUME NEW i \in Own PROVE AdvertOK(i)'
    <3>1. AdvertOK(i) /\ i \in Nat
      BY Constants DEF Inv
    <3>2. i > starts => lan'[i] = Absent /\ nearby'[i] = Absent /\ Heard(i)' = {}
      BY <1>1, <1>2, <3>1 DEF AdvertOK
    <3>3. /\ service'.at = "starting" /\ service'.id = starts + 1
          /\ (i > starts + 1 => i > starts) /\ (i = starts + 1 => i > starts)
      BY <1>1, <2>1, <3>1
    <3> QED
      BY <2>1, <3>2, <3>3 DEF AdvertOK
  <2> QED
    BY <2>2, <2>6, <2>7, <2>8 DEF Inv
<1> QED
  BY <1>3, <1>4 DEF Start

LEMMA AutoStartInv ==
  ASSUME Inv, AutoStart
  PROVE  Inv'
<1> DEFINE started == [app EXCEPT !.pending = FALSE]
<1>1. app.up /\ app.pending /\ Start(started)
  BY DEF AutoStart
<1>2. service.at = "none"
  BY <1>1 DEF Inv, ServiceOK
<1>3. /\ started \in [up : BOOLEAN, name : Typed, auto : BOOLEAN, pending : BOOLEAN,
                      running : BOOLEAN, browsing : BOOLEAN]
      /\ started.up /\ ~ started.pending /\ started.name = app.name
  BY <1>1 DEF Inv, TypeOK
<1> QED
  BY <1>1, <1>2, <1>3, StartInv

LEMMA PressStartInv ==
  ASSUME Inv, PressStart
  PROVE  Inv'
<1>1. app.up /\ ~ app.pending /\ ~ app.running /\ Start(app)
  BY DEF PressStart, Frame
<1>2. service.at = "none"
  BY <1>1 DEF Inv, ServiceOK
<1>3. app \in [up : BOOLEAN, name : Typed, auto : BOOLEAN, pending : BOOLEAN,
               running : BOOLEAN, browsing : BOOLEAN]
  BY DEF Inv, TypeOK
<1> QED
  BY <1>1, <1>2, <1>3, StartInv

LEMMA StopInv ==
  ASSUME Inv, Stop
  PROVE  Inv'
<1>1. /\ service' = [service EXCEPT !.stop = TRUE] /\ starts' = starts
      /\ UNCHANGED <<file, app, lan, queue, nearby, kept>>
  BY DEF Stop
<1>2. /\ service' \in [at : {"none", "starting", "on", "ended"}, name : Names,
                       id : 0..MaxStarts, stop : BOOLEAN]
      /\ service'.at = service.at /\ service'.id = service.id /\ service'.name = service.name
  BY <1>1 DEF Inv, TypeOK
<1>3. TypeOK' /\ ServiceOK' /\ KeptOK'
  BY <1>1, <1>2 DEF Inv, TypeOK, ServiceOK, KeptOK
<1>4. ASSUME NEW i \in Own PROVE AdvertOK(i)'
  <2>1. Heard(i)' = Heard(i) /\ AdvertOK(i)
    BY <1>1 DEF Heard, Inv
  <2> QED
    BY <1>1, <1>2, <2>1 DEF AdvertOK
<1> QED
  BY <1>3, <1>4 DEF Inv

LEMMA HandleStoppedInv ==
  ASSUME Inv, HandleStopped
  PROVE  Inv'
<1>1. /\ app' = [app EXCEPT !.running = FALSE] /\ service' = NoService
      /\ UNCHANGED <<file, starts, lan, queue, nearby, kept>>
  BY DEF HandleStopped
<1>2. /\ NoService \in [at : {"none", "starting", "on", "ended"}, name : Names,
                        id : 0..MaxStarts, stop : BOOLEAN]
      /\ NoService.at = "none"
  BY Constants DEF NoService
<1>3. app' \in [up : BOOLEAN, name : Typed, auto : BOOLEAN, pending : BOOLEAN,
                running : BOOLEAN, browsing : BOOLEAN]
  BY <1>1 DEF Inv, TypeOK
<1>4. TypeOK' /\ ServiceOK' /\ KeptOK'
  BY <1>1, <1>2, <1>3 DEF Inv, TypeOK, ServiceOK, KeptOK
<1>5. \A i \in Own : Heard(i)' = Heard(i) /\ nearby'[i] = nearby[i]
  BY <1>1 DEF Heard
<1>6. service'.at = "none"
  BY <1>1, <1>2
<1> QED
  BY <1>1, <1>4, <1>5, <1>6, WindowFrame

\* What the table says of a after a poll: what it said, or what an event that
\* counts says.
LEMMA Polled ==
  ASSUME TypeOK, PollNearby, NEW a \in Adverts
  PROVE  \/ nearby'[a] = nearby[a]
         \/ \E i \in DOMAIN queue :
              queue[i].of = a /\ Counts(queue[i]) /\ nearby'[a] = queue[i].said
<1>1. nearby'[a] = IF Latest(a) = {} THEN nearby[a]
                   ELSE queue[CHOOSE i \in Latest(a) : TRUE].said
  BY DEF PollNearby
<1>2. CASE Latest(a) # {}
  <2> DEFINE last == CHOOSE i \in Latest(a) : TRUE
  <2>1. last \in Latest(a)
    BY <1>2
  <2>2. last \in DOMAIN queue /\ queue[last].of = a /\ Counts(queue[last])
    BY <2>1 DEF Latest, About
  <2> QED
    BY <1>1, <1>2, <2>2
<1> QED
  BY <1>1, <1>2

LEMMA PollNearbyInv ==
  ASSUME Inv, PollNearby
  PROVE  Inv'
<1>1. /\ TypeOK /\ queue' = <<>> /\ UNCHANGED <<file, app, service, starts, lan, kept>>
      /\ queue \in Seq(Events) /\ nearby \in [Adverts -> Names \cup PeerNames \cup {Absent}]
  BY DEF PollNearby, Inv, TypeOK, Events, Said
<1>2. nearby' \in [Adverts -> Names \cup PeerNames \cup {Absent}]
  <2>1. ASSUME NEW a \in Adverts PROVE nearby'[a] \in Names \cup PeerNames \cup {Absent}
    <3>1. CASE nearby'[a] = nearby[a]
      BY <1>1, <3>1
    <3>2. CASE \E i \in DOMAIN queue :
                 queue[i].of = a /\ Counts(queue[i]) /\ nearby'[a] = queue[i].said
      <4>1. PICK i \in DOMAIN queue : Counts(queue[i]) /\ nearby'[a] = queue[i].said
        BY <3>2
      <4>2. queue[i] \in Events
        BY <1>1
      <4>3. queue[i].said \in Said /\ (queue[i].said = Hidden => Absent = Hidden)
        BY <4>1, <4>2 DEF Events, Counts
      <4> QED
        BY <4>1, <4>3 DEF Said
    <3> QED
      BY <1>1, <3>1, <3>2, Polled
  <2>2. nearby' = [a \in Adverts |-> nearby'[a]]
    BY DEF PollNearby
  <2> QED
    BY <2>1, <2>2
<1>3. TypeOK' /\ ServiceOK' /\ KeptOK'
  BY <1>1, <1>2 DEF Inv, TypeOK, ServiceOK, KeptOK
<1>4. ASSUME NEW i \in Own PROVE AdvertOK(i)'
  <2>1. AdvertOK(i) /\ i \in Adverts /\ Heard(i)' = {}
    BY <1>1 DEF Inv, Adverts, Heard
  <2>2. ASSUME Heard(i) = {} PROVE nearby'[i] = nearby[i]
    BY <1>1, <2>1, <2>2, Polled DEF Heard
  <2>3. ASSUME service.at = "on", service.id = i, ~ app.name.padded
        PROVE  nearby'[i] = Absent
    <3>1. nearby[i] = Absent /\ Heard(i) \subseteq {service.name}
      BY <2>1, <2>3 DEF AdvertOK
    <3>2. app.name = Field(service.name)
      <4>1. service.name = app.name.text /\ app.name \in Typed
        BY <1>1, <2>3 DEF Inv, ServiceOK, TypeOK
      <4>2. CASE app.name \in [text : Names, padded : BOOLEAN]
        BY <2>3, <4>1, <4>2 DEF Field
      <4>3. CASE app.name = Field(Unfit)
        BY <4>1, <4>3 DEF Field
      <4> QED
        BY <4>1, <4>2, <4>3 DEF Typed
    <3>3. CASE nearby'[i] # nearby[i]
      <4>1. PICK n \in DOMAIN queue : /\ queue[n].of = i /\ Counts(queue[n])
                                      /\ nearby'[i] = queue[n].said
        BY <1>1, <2>1, <3>3, Polled
      <4>2. queue[n].said = service.name
        BY <3>1, <4>1 DEF Heard
      <4> QED
        BY <3>2, <4>1, <4>2 DEF Counts
    <3> QED
      BY <3>1, <3>3
  <2> QED
    BY <1>1, <2>1, <2>2, <2>3 DEF AdvertOK
<1> QED
  BY <1>3, <1>4 DEF Inv

--------------------------------------------------------------------------
(* The service.                                                            *)

LEMMA ServiceStartsInv ==
  ASSUME Inv, ServiceStarts
  PROVE  Inv'
<1>1. /\ TypeOK /\ ServiceOK /\ service.at = "starting" /\ service.id = starts
      /\ service.id \in Own /\ service.id \in Adverts /\ starts \in Nat
      /\ service.name \in Said /\ service.name = app.name.text
      /\ UNCHANGED <<file, app, starts, nearby, kept>>
  BY Constants DEF Inv, TypeOK, ServiceOK, ServiceStarts, Own, Adverts, Said
<1>2. CASE service' = [service EXCEPT !.at = "on"] /\ Advertise(service.id, service.name)
  <2>1. /\ lan' \in [Adverts -> Said] /\ queue' \in Seq(Events)
        /\ lan'[service.id] = service.name
        /\ Heard(service.id)' \subseteq Heard(service.id) \cup {service.name}
        /\ \A b \in Adverts \ {service.id} : lan'[b] = lan[b] /\ Heard(b)' = Heard(b)
    BY <1>1, <1>2, Advertising
  <2>2. /\ service' \in [at : {"none", "starting", "on", "ended"}, name : Names,
                         id : 0..MaxStarts, stop : BOOLEAN]
        /\ service'.at = "on" /\ service'.id = service.id /\ service'.name = service.name
    BY <1>1, <1>2 DEF TypeOK
  <2>3. TypeOK' /\ ServiceOK' /\ KeptOK'
    BY <1>1, <2>1, <2>2 DEF Inv, TypeOK, ServiceOK, KeptOK, Said, Events
  <2>4. ASSUME NEW i \in Own PROVE AdvertOK(i)'
    <3>1. AdvertOK(i)
      BY DEF Inv
    <3>2. CASE i = service.id
      <4>1. nearby[i] = Absent /\ Heard(i) = {} /\ ~ (i > starts)
        BY <1>1, <3>1, <3>2 DEF AdvertOK
      <4> QED
        BY <1>1, <2>1, <2>2, <3>2, <4>1 DEF AdvertOK
    <3>3. CASE i # service.id
      <4>1. lan'[i] = lan[i] /\ Heard(i)' = Heard(i)
        BY <2>1, <3>3 DEF Adverts
      <4> QED
        BY <1>1, <2>2, <3>1, <3>3, <4>1 DEF AdvertOK
    <3> QED
      BY <3>2, <3>3
  <2> QED
    BY <2>3, <2>4 DEF Inv
<1>3. CASE service' = [service EXCEPT !.at = "ended"] /\ UNCHANGED <<lan, queue>>
  <2>1. /\ service' \in [at : {"none", "starting", "on", "ended"}, name : Names,
                         id : 0..MaxStarts, stop : BOOLEAN]
        /\ service'.at = "ended" /\ service'.id = service.id /\ service'.name = service.name
    BY <1>1, <1>3 DEF TypeOK
  <2>2. TypeOK' /\ ServiceOK' /\ KeptOK'
    BY <1>1, <1>3, <2>1 DEF Inv, TypeOK, ServiceOK, KeptOK
  <2>3. ASSUME NEW i \in Own PROVE AdvertOK(i)'
    BY <1>1, <1>3, <2>1 DEF Inv, AdvertOK, Heard
  <2> QED
    BY <2>2, <2>3 DEF Inv
<1> QED
  BY <1>2, <1>3 DEF ServiceStarts

LEMMA ServiceEndsInv ==
  ASSUME Inv, ServiceEnds
  PROVE  Inv'
<1>1. /\ TypeOK /\ ServiceOK /\ service.at = "on" /\ service.id = starts
      /\ service.id \in Own /\ service.id \in Adverts /\ starts \in Nat /\ Absent \in Said
      /\ service' = [service EXCEPT !.at = "ended"]
      /\ UNCHANGED <<file, app, starts, nearby, kept>>
  BY Constants DEF Inv, TypeOK, ServiceOK, ServiceEnds, Own, Adverts, Said
<1>2. /\ lan' \in [Adverts -> Said] /\ queue' \in Seq(Events)
      /\ \A b \in Adverts \ {service.id} : lan'[b] = lan[b] /\ Heard(b)' = Heard(b)
  <2>1. CASE Advertise(service.id, Absent)
    BY <1>1, <2>1, Advertising
  <2>2. CASE UNCHANGED <<lan, queue>>
    BY <1>1, <2>2 DEF TypeOK, Heard, Said, Events
  <2> QED
    BY <2>1, <2>2 DEF ServiceEnds
<1>3. /\ service' \in [at : {"none", "starting", "on", "ended"}, name : Names,
                       id : 0..MaxStarts, stop : BOOLEAN]
      /\ service'.at = "ended" /\ service'.id = service.id /\ service'.name = service.name
  BY <1>1 DEF TypeOK
<1>4. TypeOK' /\ ServiceOK' /\ KeptOK'
  BY <1>1, <1>2, <1>3 DEF Inv, TypeOK, ServiceOK, KeptOK, Said, Events
<1>5. ASSUME NEW i \in Own PROVE AdvertOK(i)'
  <2>1. CASE i = service.id
    BY <1>1, <1>3, <2>1 DEF AdvertOK
  <2>2. CASE i # service.id
    <3>1. lan'[i] = lan[i] /\ Heard(i)' = Heard(i) /\ AdvertOK(i)
      BY <1>2, <2>2 DEF Adverts, Inv
    <3> QED
      BY <1>1, <1>3, <2>2, <3>1 DEF AdvertOK
  <2> QED
    BY <2>1, <2>2
<1> QED
  BY <1>4, <1>5 DEF Inv

--------------------------------------------------------------------------
(* The theorems.                                                           *)

LEMMA InitInvariant ==
  ASSUME Init
  PROVE  Inv
<1>1. /\ Asleep \in [up : BOOLEAN, name : Typed, auto : BOOLEAN, pending : BOOLEAN,
                     running : BOOLEAN, browsing : BOOLEAN]
      /\ NoService \in [at : {"none", "starting", "on", "ended"}, name : Names,
                        id : 0..MaxStarts, stop : BOOLEAN]
      /\ NoService.at = "none" /\ DefaultSettings \in Saved /\ 0 \in 0 .. MaxStarts
  BY Constants DEF Asleep, Field, Typed, NoService, DefaultSettings, Saved
<1>2. TypeOK
  BY <1>1 DEF Init, TypeOK, Empty
<1>3. ServiceOK /\ KeptOK
  BY <1>1 DEF Init, ServiceOK, KeptOK, Load
<1>4. ASSUME NEW i \in Own PROVE AdvertOK(i)
  BY <1>1 DEF Init, AdvertOK, Empty, Heard, Adverts
<1> QED
  BY <1>2, <1>3, <1>4 DEF Inv

LEMMA NextInvariant ==
  ASSUME Inv, [Next]_vars
  PROVE  Inv'
<1>1. CASE User
  BY <1>1, LaunchInv, ExitInv, SaveSettingsInv, ToggleAutoInv, PressStartInv, StopInv,
     EditNameInv DEF User
<1>2. CASE Window
  BY <1>2, AutoStartInv, HandleStoppedInv, PollNearbyInv DEF Window
<1>3. CASE Service
  BY <1>3, ServiceStartsInv, ServiceEndsInv DEF Service
<1>4. CASE Network
  BY <1>4, PeerChangesInv, ExpireInv DEF Network
<1>5. CASE UNCHANGED vars
  <2>1. TypeOK' /\ ServiceOK' /\ KeptOK'
    BY <1>5 DEF vars, Inv, TypeOK, ServiceOK, KeptOK
  <2>2. \A i \in Own : Heard(i)' = Heard(i) /\ nearby'[i] = nearby[i]
    BY <1>5 DEF vars, Heard
  <2>3. UNCHANGED <<starts, lan>> /\ UNCHANGED service /\ app'.name = app.name
    BY <1>5 DEF vars
  <2> QED
    BY <2>1, <2>2, <2>3, WindowFrame
<1> QED
  BY <1>1, <1>2, <1>3, <1>4, <1>5 DEF Next

\* The computer keeps the inductive invariant through any number of launches.
THEOREM Invariance == Spec => []Inv
<1>1. Init => Inv
  BY InitInvariant
<1>2. Inv /\ [Next]_vars => Inv'
  BY NextInvariant
<1> QED
  BY <1>1, <1>2, PTL DEF Spec

\* Every variable has the shape its declaration says.
THEOREM TypeCorrect == Spec => []TypeOK
<1>1. Inv => TypeOK
  BY DEF Inv
<1> QED
  BY <1>1, Invariance, PTL

\* While the receive service is up, the network is told the name that the window
\* shows, and so is the settings file unless the last save failed.
THEOREM OneName == Spec => []AdvertisesWhatIsShown
<1>1. Inv => AdvertisesWhatIsShown
  <2> SUFFICES ASSUME Inv, service.at = "on"
               PROVE  /\ lan[service.id] = app.name.text
                      /\ kept # Unknown => Load(file).name = app.name.text
    BY DEF AdvertisesWhatIsShown
  <2>1. service.id \in Own
    BY Constants DEF Inv, TypeOK, ServiceOK, Own
  <2>2. lan[service.id] = service.name /\ service.name = app.name.text
    BY <2>1 DEF Inv, AdvertOK, ServiceOK
  <2>3. kept # Unknown => Load(file).name = app.name.text
    BY DEF Inv, ServiceOK, KeptOK
  <2> QED
    BY <2>2, <2>3
<1> QED
  BY <1>1, Invariance, PTL

--------------------------------------------------------------------------
(* The computer in its own table.                                          *)

\* The last event of the queue about a is its removal.
RemovalIsLast(a) ==
  \E k \in DOMAIN queue :
    /\ queue[k] = Event(a, Absent)
    /\ \A j \in DOMAIN queue : j > k => queue[j].of # a

\* Without a browser there is nothing to list; with one, an advertisement that
\* is gone from the network is not listed or its removal is yet to be polled.
BrowserOK ==
  ~ (app.up /\ app.browsing) =>
    queue = <<>> /\ \A i \in Own : nearby[i] = Absent
GoneOK(i) ==
  lan[i] = Absent => (nearby[i] = Absent /\ Heard(i) = {}) \/ RemovalIsLast(i)

TableOK == BrowserOK /\ \A i \in Own : GoneOK(i)

\* A change of one advertisement reaches the queue, behind what is there.
LEMMA AdvertisingTable ==
  ASSUME TypeOK, TableOK, NEW a \in Adverts, NEW said \in Said, Advertise(a, said),
         UNCHANGED <<app, nearby>>
  PROVE  TableOK'
<1>1. /\ \A b \in Adverts \ {a} : lan'[b] = lan[b] /\ Heard(b)' = Heard(b)
      /\ lan'[a] = said /\ queue \in Seq(Events)
  BY Advertising DEF TypeOK, Events, Said
<1>2. CASE ~ (app.up /\ app.browsing)
  <2>1. queue' = queue /\ queue = <<>> /\ \A i \in Own : nearby[i] = Absent
    BY <1>2 DEF Advertise, TableOK, BrowserOK
  <2>2. \A i \in Own : nearby'[i] = Absent /\ Heard(i)' = {}
    BY <2>1 DEF Heard
  <2> QED
    BY <1>2, <2>1, <2>2 DEF TableOK, BrowserOK, GoneOK
<1>3. CASE app.up /\ app.browsing
  <2>1. queue' = Append(queue, Event(a, said))
    BY <1>3 DEF Advertise
  <2>2. Event(a, said) \in Events /\ Event(a, said).of = a
    BY DEF Event, Events
  <2>3. /\ Len(queue) \in Nat
        /\ DOMAIN queue = 1 .. Len(queue) /\ DOMAIN queue' = 1 .. Len(queue) + 1
        /\ queue'[Len(queue) + 1] = Event(a, said)
        /\ \A n \in 1 .. Len(queue) : queue'[n] = queue[n]
    BY <1>1, <2>1, <2>2
  <2>4. ASSUME NEW i \in Own, lan'[i] = Absent
        PROVE  (nearby'[i] = Absent /\ Heard(i)' = {}) \/ RemovalIsLast(i)'
    <3>1. CASE i = a
      <4>1. queue'[Len(queue) + 1] = Event(i, Absent)
        BY <1>1, <2>3, <2>4, <3>1
      <4>2. Len(queue) + 1 \in DOMAIN queue'
            /\ \A j \in DOMAIN queue' : ~ (j > Len(queue) + 1)
        BY <2>3
      <4> QED
        BY <4>1, <4>2 DEF RemovalIsLast
    <3>2. CASE i # a
      <4>1. i \in Adverts \ {a} /\ GoneOK(i)
        BY <3>2 DEF Adverts, TableOK
      <4>2. lan[i] = Absent /\ Heard(i)' = Heard(i) /\ nearby'[i] = nearby[i]
        BY <1>1, <2>4, <4>1
      <4>3. ASSUME RemovalIsLast(i)
            PROVE  RemovalIsLast(i)'
        <5>1. PICK k \in DOMAIN queue :
                /\ queue[k] = Event(i, Absent)
                /\ \A j \in DOMAIN queue : j > k => queue[j].of # i
          BY <4>3 DEF RemovalIsLast
        <5>2. k \in DOMAIN queue' /\ queue'[k] = Event(i, Absent)
          BY <2>3, <5>1
        <5>3. ASSUME NEW j \in DOMAIN queue', j > k
              PROVE  queue'[j].of # i
          BY <2>2, <2>3, <3>2, <5>1, <5>3
        <5> QED
          BY <5>2, <5>3 DEF RemovalIsLast
      <4> QED
        BY <4>1, <4>2, <4>3 DEF GoneOK
    <3> QED
      BY <3>1, <3>2
  <2> QED
    BY <1>3, <2>4 DEF TableOK, BrowserOK, GoneOK
<1> QED
  BY <1>2, <1>3

\* A poll empties the queue, and a removal that comes last empties the entry.
LEMMA PollNearbyTable ==
  ASSUME TypeOK, TableOK, PollNearby
  PROVE  TableOK'
<1>1. /\ queue' = <<>> /\ UNCHANGED <<app, lan>> /\ queue \in Seq(Events)
      /\ \A i \in Own : i \in Adverts
  BY DEF PollNearby, TypeOK, Events, Said, Adverts
<1>2. app.up /\ app.browsing
  BY DEF PollNearby, TableOK, BrowserOK
<1>3. ASSUME NEW i \in Own, lan[i] = Absent
      PROVE  nearby'[i] = Absent
  <2>1. CASE nearby[i] = Absent /\ Heard(i) = {}
    BY <1>1, <2>1, Polled DEF Heard
  <2>2. CASE RemovalIsLast(i)
    <3>1. PICK k \in DOMAIN queue :
            /\ queue[k] = Event(i, Absent)
            /\ \A j \in DOMAIN queue : j > k => queue[j].of # i
      BY <2>2 DEF RemovalIsLast
    <3>2. DOMAIN queue = 1 .. Len(queue) /\ Len(queue) \in Nat
      BY <1>1
    <3>3. k \in About(i) /\ \A j \in About(i) : j <= k
      BY <3>1, <3>2 DEF About, Counts, Event
    <3>4. Latest(i) = {k}
      <4>1. \A j \in About(i) : j \in 1 .. Len(queue)
        BY <3>2 DEF About
      <4> QED
        BY <3>2, <3>3, <4>1 DEF Latest
    <3>5. queue[k].said = Absent
      BY <3>1 DEF Event
    <3> QED
      BY <1>1, <3>4, <3>5 DEF PollNearby
  <2> QED
    BY <1>3, <2>1, <2>2 DEF TableOK, GoneOK
<1>4. \A i \in Own : Heard(i)' = {}
  BY <1>1 DEF Heard
<1> QED
  BY <1>1, <1>2, <1>3, <1>4 DEF TableOK, BrowserOK, GoneOK

\* A window that opens or closes has an empty table, and what is gone from the
\* network is not in its queue.
LEMMA NewTable ==
  ASSUME TypeOK, Launch \/ Gone
  PROVE  TableOK'
<1>1. nearby' = Empty /\ lan' = lan
  BY DEF Launch, Gone
<1>2. /\ ~ (app'.up /\ app'.browsing) => queue' = <<>>
      /\ \A k \in DOMAIN queue' : lan[queue'[k].of] # Absent
  <2>1. CASE Gone
    BY <2>1 DEF Gone
  <2>2. CASE Launch
    <3>1. PICK read \in {file, Unreadable}, browsing \in BOOLEAN :
            /\ app' = [up |-> TRUE, name |-> Field(Load(read).name),
                       auto |-> Load(read).auto, pending |-> Load(read).auto,
                       running |-> FALSE, browsing |-> browsing]
            /\ \E there \in Orders({a \in Adverts : lan[a] # Absent}) :
                 queue' = IF browsing
                            THEN [i \in DOMAIN there |-> Event(there[i], lan[there[i]])]
                            ELSE <<>>
      BY <2>2 DEF Launch
    <3>2. PICK there \in Orders({a \in Adverts : lan[a] # Absent}) :
            queue' = IF browsing
                       THEN [i \in DOMAIN there |-> Event(there[i], lan[there[i]])]
                       ELSE <<>>
      BY <3>1
    <3>3. CASE browsing
      BY <3>1, <3>2, <3>3, ThereIs
    <3>4. CASE ~ browsing
      BY <3>2, <3>4
    <3> QED
      BY <3>3, <3>4
  <2> QED
    BY <2>1, <2>2
<1>3. ASSUME NEW i \in Own
      PROVE  nearby'[i] = Absent /\ (lan'[i] = Absent => Heard(i)' = {})
  BY <1>1, <1>2 DEF Empty, Adverts, Heard
<1> QED
  BY <1>2, <1>3 DEF TableOK, BrowserOK, GoneOK

LEMMA TableInvariant ==
  ASSUME Inv, TableOK, [Next]_vars
  PROVE  TableOK'
<1>1. TypeOK /\ \A i \in Own : i \in Adverts
  BY DEF Inv, Adverts
<1>2. CASE Launch \/ Exit \/ CrashWhileSaving
  BY <1>1, <1>2, NewTable DEF Exit, CrashWhileSaving
<1>3. CASE PollNearby
  BY <1>1, <1>3, PollNearbyTable
<1>4. CASE \E a \in Adverts, said \in Said :
             Advertise(a, said) /\ UNCHANGED <<app, nearby>>
  BY <1>1, <1>4, AdvertisingTable
<1>5. CASE UNCHANGED <<lan, queue, nearby>> /\ app'.up = app.up
             /\ app'.browsing = app.browsing
  <2>1. \A i \in Own : Heard(i)' = Heard(i) /\ (RemovalIsLast(i) => RemovalIsLast(i)')
    BY <1>5 DEF Heard, RemovalIsLast
  <2>2. BrowserOK'
    BY <1>5 DEF TableOK, BrowserOK
  <2>3. \A i \in Own : GoneOK(i)'
    BY <1>5, <2>1 DEF TableOK, GoneOK
  <2> QED
    BY <2>2, <2>3 DEF TableOK
<1>6. CASE \/ SaveSettings \/ ToggleAuto \/ PressStart \/ Stop
           \/ \E t \in Typed : EditName(t)
  <2>1. UNCHANGED <<lan, queue, nearby>> /\ app'.up = app.up
          /\ app'.browsing = app.browsing
    BY <1>1, <1>6 DEF SaveSettings, ToggleAuto, PressStart, Stop, EditName, Start,
                      Spawn, Refuse, TypeOK
  <2> QED
    BY <1>5, <2>1
<1>7. CASE AutoStart \/ HandleStopped
  <2>1. UNCHANGED <<lan, queue, nearby>> /\ app'.up = app.up
          /\ app'.browsing = app.browsing
    BY <1>1, <1>7 DEF AutoStart, HandleStopped, Start, Spawn, Refuse, TypeOK
  <2> QED
    BY <1>5, <2>1
<1>8. CASE Service
  <2>1. service.at # "none" => service.id \in Own /\ service.name \in Said
    BY Constants DEF Inv, TypeOK, ServiceOK, Own, Said
  <2>2. Absent \in Said
    BY DEF Said
  <2>3. CASE UNCHANGED <<lan, queue>>
    <3>1. UNCHANGED <<app, nearby>>
      BY <1>8 DEF Service, ServiceStarts, ServiceEnds
    <3> QED
      BY <1>5, <2>3, <3>1
  <2> QED
    BY <1>1, <1>4, <1>8, <2>1, <2>2, <2>3 DEF Service, ServiceStarts, ServiceEnds
<1>9. CASE Network
  <2>1. \A p \in Peers : p \in Adverts
    BY DEF Adverts
  <2>2. \A said \in PeerNames \cup {Hidden, Absent} : said \in Said
    BY DEF Said
  <2> QED
    BY <1>1, <1>4, <1>9, <2>1, <2>2 DEF Network, PeerChanges, Expire
<1>10. CASE UNCHANGED vars
  BY <1>5, <1>10 DEF vars
<1> QED
  BY <1>2, <1>3, <1>6, <1>7, <1>8, <1>9, <1>10 DEF Next, User, Window

\* However often the service is restarted under whatever names, and in whatever
\* order the browser's events are polled, an advertisement of the computer's own
\* is in its table only if spaces surround the name in the field, or if its
\* service is gone and the network, or the queue, has yet to see it go.
THEOREM NotItsOwnNeighbour == Spec => []ListsOnlyLeftovers
<1>1. Init => TableOK
  BY DEF Init, TableOK, BrowserOK, GoneOK, Empty, Heard, Adverts, Asleep
<1>2. Inv /\ TableOK /\ [Next]_vars => TableOK'
  BY TableInvariant
<1>3. Inv /\ TableOK => ListsOnlyLeftovers
  <2> SUFFICES ASSUME Inv, TableOK, NEW i \in Own, nearby[i] # Absent
               PROVE  IF Advertises(i) THEN app.name.padded
                                       ELSE lan[i] # Absent \/ RemovalWaits(i)
    BY DEF ListsOnlyLeftovers
  <2>1. CASE Advertises(i)
    BY <2>1 DEF Advertises, Inv, AdvertOK
  <2>2. CASE ~ Advertises(i) /\ lan[i] = Absent
    BY <2>2 DEF TableOK, GoneOK, RemovalIsLast, RemovalWaits
  <2> QED
    BY <2>1, <2>2
<1> QED
  BY <1>1, <1>2, <1>3, Invariance, PTL DEF Spec

\* A launch shows what was on display at the last save, unless that save or the
\* reading failed.
THEOREM SettingsComeBack == Spec => RelaunchShowsWhatWasSaved
<1>1. Inv /\ [Next]_vars =>
        [~app.up /\ app'.up /\ kept # Unknown /\ kept' # Unknown =>
           app'.name = Field(kept.name) /\ app'.auto = kept.auto]_vars
  <2> SUFFICES ASSUME Inv, Next, ~ app.up, app'.up, kept # Unknown, kept' # Unknown
               PROVE  app'.name = Field(kept.name) /\ app'.auto = kept.auto
    OBVIOUS
  <2>1. service.at = "none" /\ Load(file) = kept
    BY DEF Inv, ServiceOK, KeptOK
  <2>2. ~ Window /\ ~ Exit /\ ~ CrashWhileSaving /\ ~ SaveSettings /\ ~ ToggleAuto
        /\ ~ PressStart /\ ~ Stop /\ \A t \in Typed : ~ EditName(t)
    BY <2>1 DEF Window, AutoStart, HandleStopped, PollNearby, Frame, Exit,
                CrashWhileSaving, SaveSettings, ToggleAuto, PressStart, Stop, EditName
  <2>3. ~ Service /\ ~ Network
    BY <2>1 DEF Service, ServiceStarts, ServiceEnds, Network, PeerChanges, Expire
  <2>4. Launch
    BY <2>2, <2>3 DEF Next, User
  <2>5. PICK read \in {file, Unreadable} :
          /\ app'.name = Field(Load(read).name) /\ app'.auto = Load(read).auto
          /\ kept' = IF read = file THEN Load(file) ELSE Unknown
    BY <2>4 DEF Launch
  <2> QED
    BY <2>1, <2>5
<1> QED
  BY <1>1, Invariance, PTL DEF Spec, RelaunchShowsWhatWasSaved

=============================================================================
