------------------------------ MODULE Desktop ------------------------------
(***************************************************************************)
(* One computer with HiRodrop on the local network, from launch to launch:   *)
(* the settings file (src/settings.rs), the name that the window shows, the  *)
(* advertisement that the receive service makes with it (src/quick_share.rs) *)
(* and the table of nearby devices that the window keeps from what the       *)
(* network's advertisements do (src/quick_share_discovery.rs and             *)
(* poll_nearby of src/bin/hirodrop-gui.rs).                                  *)
(*                                                                         *)
(* The window runs on one thread and each of its handlers is one action.  The *)
(* service is a thread of its own; the devices, the DNS-SD daemon and the    *)
(* power switch move at any time.  ReceiveService has what the service does  *)
(* with its connections.  The download directory is edited, trimmed, saved   *)
(* and handed to the service exactly as the name is, and the other           *)
(* checkboxes as the launch one: the name and that box stand for them.       *)
(***************************************************************************)
EXTENDS Integers, Sequences, FiniteSets

CONSTANTS
  Names,       \* names of 1 to 255 bytes that the user may type
  Default,     \* default_device_name()
  Peers,       \* the advertisements of other devices
  PeerNames,   \* what they call themselves
  MaxStarts,   \* bound: the services started, each with a random identifier;
               \* a launch leaves room for one
  MaxQueue     \* bound: changes of the network that wait to be polled

ASSUME DefaultAssumption == Default \in Names

\* A service's random identifier is nobody else's.
ASSUME NetworkAssumption ==
  /\ IsFiniteSet(Peers) /\ Peers \cap (1..MaxStarts) = {}
  /\ MaxStarts \in Nat

VARIABLES
  file,     \* settings.json, or Unreadable when missing or torn
  app,      \* HirodropApp: the settings it shows and running
  service,  \* the receive_service thread
  starts,   \* the services started so far
  lan,      \* what each advertisement on the network says, or Absent
  queue,    \* the browser's channel of events
  nearby,   \* HirodropApp::nearby
  kept      \* history: what was on display at the last save, or Unknown

vars == <<file, app, service, starts, lan, queue, nearby, kept>>

Own == 1..MaxStarts
Adverts == Peers \cup Own
Absent == "absent"
Hidden == "hidden"        \* an advertisement without a readable name
Unreadable == [name |-> Absent, auto |-> FALSE]
Unknown == Unreadable
Unfit == ""               \* a name of no bytes, or of more than 255

\* The text field: a name, and whether spaces surround it.
Field(n) == [text |-> n, padded |-> FALSE]
Typed == [text : Names, padded : BOOLEAN] \cup {Field(Unfit)}
Trim(t) == t.text

Saved == [name : Names \cup {Unfit}, auto : BOOLEAN]
DefaultSettings == [name |-> Default, auto |-> TRUE]

\* HirodropSettings::load: any failure gives the defaults.
Load(f) == IF f = Unreadable THEN DefaultSettings ELSE f

\* Mutant: settings() forgets a checkbox.
SettingsMutant == [name |-> Trim(app.name), auto |-> TRUE]

Settings == [name |-> Trim(app.name), auto |-> app.auto]

Asleep == [up |-> FALSE, name |-> Field(Default), auto |-> FALSE,
           pending |-> FALSE, running |-> FALSE, browsing |-> FALSE]
NoService == [at |-> "none", name |-> Default, id |-> 0, stop |-> FALSE]
Empty == [a \in Adverts |-> Absent]

Init ==
  /\ file = Unreadable /\ app = Asleep /\ service = NoService /\ starts = 0
  /\ lan = Empty /\ queue = <<>> /\ nearby = Empty
  /\ kept = DefaultSettings

--------------------------------------------------------------------------
(* The network.  A browser hears of every change after it started, and first *)
(* of what is there.                                                         *)

Event(a, said) == [of |-> a, said |-> said]

Advertise(a, said) ==
  /\ lan' = [lan EXCEPT ![a] = said]
  /\ IF app.up /\ app.browsing
       THEN Len(queue) < MaxQueue /\ queue' = Append(queue, Event(a, said))
       ELSE UNCHANGED queue

\* A device comes, renames itself, hides, or goes.
PeerChanges(p) ==
  /\ \E said \in PeerNames \cup {Hidden, Absent} :
       said # lan[p] /\ Advertise(p, said)
  /\ UNCHANGED <<file, app, service, starts, nearby, kept>>

\* An advertisement whose service is gone without unregistering it expires.
Expire(i) ==
  /\ lan[i] # Absent /\ ~(service.at = "on" /\ service.id = i)
  /\ Advertise(i, Absent)
  /\ UNCHANGED <<file, app, service, starts, nearby, kept>>

--------------------------------------------------------------------------
(* Launch and end of the application.                                      *)

\* Every order of the elements of S.
Orders(S) == {f \in [1..Cardinality(S) -> S] : {f[i] : i \in DOMAIN f} = S}

\* HirodropApp::new.  Reading the file can fail although it is good, and
\* QuickShareBrowser::start can fail: nothing is browsed in this launch then.
Launch ==
  /\ ~app.up /\ starts < MaxStarts
  /\ \E read \in {file, Unreadable}, browsing \in BOOLEAN :
       /\ app' = [up |-> TRUE, name |-> Field(Load(read).name),
                  auto |-> Load(read).auto, pending |-> Load(read).auto,
                  running |-> FALSE, browsing |-> browsing]
       /\ \E there \in Orders({a \in Adverts : lan[a] # Absent}) :
            queue' = IF browsing
                       THEN [i \in DOMAIN there |-> Event(there[i], lan[there[i]])]
                       ELSE <<>>
       /\ kept' = IF read = file THEN Load(file) ELSE Unknown
  /\ nearby' = Empty
  /\ UNCHANGED <<file, service, starts, lan>>

\* The process ends, by the user or by accident: its threads end with it, its
\* advertisement stays until it expires.
Gone ==
  /\ app' = Asleep /\ service' = NoService
  /\ queue' = <<>> /\ nearby' = Empty
  /\ UNCHANGED <<starts, lan>>

Exit == app.up /\ Gone /\ UNCHANGED <<file, kept>>

\* A frame of the window, after the first has seen to auto_start_pending.
Frame == app.up /\ ~app.pending

--------------------------------------------------------------------------
(* Saving the settings.                                                    *)

\* HirodropSettings::save: fs::write truncates the file and writes it.  It can
\* fail before the truncation, or after.
Save ==
  \/ /\ file' = Settings
     /\ kept' = [name |-> app.name.text, auto |-> app.auto]
  \/ file' \in {file, Unreadable} /\ kept' = Unknown

\* The process ends between the truncation and the write, in a save that the
\* button or start() makes.
CrashWhileSaving ==
  /\ app.up /\ Gone
  /\ file' = Unreadable /\ kept' = Unknown

\* The button of the settings page.
SaveSettings ==
  /\ Frame /\ Save
  /\ UNCHANGED <<app, service, starts, lan, queue, nearby>>

--------------------------------------------------------------------------
(* The settings page and the receive service.                              *)

\* The name and the directory can be edited while nothing is running.
EditName(t) ==
  /\ Frame /\ ~app.running
  /\ app' = [app EXCEPT !.name = t]
  /\ UNCHANGED <<file, service, starts, lan, queue, nearby, kept>>

\* The checkboxes can be changed at any time.
ToggleAuto ==
  /\ Frame
  /\ app' = [app EXCEPT !.auto = ~@]
  /\ UNCHANGED <<file, service, starts, lan, queue, nearby, kept>>

\* start() saves the settings whatever comes of it, and spawns the service
\* with the trimmed name; it refuses a name that cannot be advertised.
Spawn(started) ==
  /\ starts < MaxStarts
  /\ starts' = starts + 1
  /\ Save
  /\ service' = [at |-> "starting", name |-> Trim(app.name), id |-> starts + 1,
                 stop |-> FALSE]
  /\ app' = [started EXCEPT !.running = TRUE]

Refuse(started) ==
  /\ Trim(app.name) = Unfit
  /\ app' = started
  /\ UNCHANGED <<file, service, starts, kept>>

Start(started) ==
  /\ \/ Trim(app.name) # Unfit /\ Spawn(started)
     \/ Refuse(started)
  /\ UNCHANGED <<lan, queue, nearby>>

\* The first frame starts the service when the settings say so.
AutoStart ==
  /\ app.up /\ app.pending
  /\ Start([app EXCEPT !.pending = FALSE])

PressStart == Frame /\ ~app.running /\ Start(app)

\* Mutant: stop() takes the service for stopped.
StopMutant ==
  /\ Frame /\ app.running /\ service.at # "none"
  /\ service' = [service EXCEPT !.stop = TRUE]
  /\ app' = [app EXCEPT !.running = FALSE]
  /\ UNCHANGED <<file, starts, lan, queue, nearby, kept>>

\* stop() raises the flag and leaves running as it is.
Stop ==
  /\ Frame /\ app.running /\ service.at # "none"
  /\ service' = [service EXCEPT !.stop = TRUE]
  /\ UNCHANGED <<file, app, starts, lan, queue, nearby, kept>>

\* receive_service: the socket, then the advertisement; either may fail.
ServiceStarts ==
  /\ service.at = "starting"
  /\ \/ /\ service' = [service EXCEPT !.at = "on"]
        /\ Advertise(service.id, service.name)
     \/ /\ service' = [service EXCEPT !.at = "ended"]
        /\ UNCHANGED <<lan, queue>>
  /\ UNCHANGED <<file, app, starts, nearby, kept>>

\* The accept loop sees the flag.  The daemon confirms that the advertisement
\* is withdrawn, or does not within 3 s; Stopped is sent either way.
ServiceEnds ==
  /\ service.at = "on" /\ service.stop
  /\ service' = [service EXCEPT !.at = "ended"]
  /\ Advertise(service.id, Absent) \/ UNCHANGED <<lan, queue>>
  /\ UNCHANGED <<file, app, starts, nearby, kept>>

\* poll_events takes the Stopped event.
HandleStopped ==
  /\ Frame /\ service.at = "ended"
  /\ app' = [app EXCEPT !.running = FALSE]
  /\ service' = NoService
  /\ UNCHANGED <<file, starts, lan, queue, nearby, kept>>

--------------------------------------------------------------------------
(* The nearby devices.                                                     *)

\* Mutants: an advertisement without a name is listed; the name is not looked
\* at; a removal is not handled.
ListsHidden(e) == Field(e.said) # app.name
ListsOurs(e) == e.said # Hidden
KeepsGone(e) == e.said \notin {Absent, Hidden} /\ Field(e.said) # app.name

\* Whether poll and poll_nearby change the table for an event: an advertisement
\* without a readable name, or with the name in the field, changes nothing.
Counts(e) ==
  e.said = Absent \/ (e.said # Hidden /\ Field(e.said) # app.name)

\* The last event of the queue that counts for a, when there is one.
About(a) == {i \in DOMAIN queue : queue[i].of = a /\ Counts(queue[i])}
Latest(a) == {i \in About(a) : \A j \in About(a) : j <= i}

PollNearby ==
  /\ Frame /\ queue # <<>>
  /\ nearby' = [a \in Adverts |-> IF Latest(a) = {} THEN nearby[a]
                                 ELSE queue[CHOOSE i \in Latest(a) : TRUE].said]
  /\ queue' = <<>>
  /\ UNCHANGED <<file, app, service, starts, lan, kept>>

--------------------------------------------------------------------------

User ==
  \/ Launch \/ Exit \/ CrashWhileSaving \/ SaveSettings \/ ToggleAuto
  \/ PressStart \/ Stop \/ \E t \in Typed : EditName(t)

Window == AutoStart \/ HandleStopped \/ PollNearby
Service == ServiceStarts \/ ServiceEnds
Network == (\E p \in Peers : PeerChanges(p)) \/ (\E i \in Own : Expire(i))

Next == User \/ Window \/ Service \/ Network

Spec == Init /\ [][Next]_vars

\* Frames are drawn every 100 ms, and each begins with these.
FairSpec == Spec /\ WF_vars(AutoStart) /\ WF_vars(PollNearby)

--------------------------------------------------------------------------

TypeOK ==
  /\ file \in Saved \cup {Unreadable} /\ kept \in Saved \cup {Unknown}
  /\ app \in [up : BOOLEAN, name : Typed, auto : BOOLEAN, pending : BOOLEAN,
              running : BOOLEAN, browsing : BOOLEAN]
  /\ service \in [at : {"none", "starting", "on", "ended"}, name : Names,
                  id : 0..MaxStarts, stop : BOOLEAN]
  /\ starts \in 0..MaxStarts
  /\ lan \in [Adverts -> Names \cup PeerNames \cup {Hidden, Absent}]
  /\ queue \in Seq([of : Adverts,
                    said : Names \cup PeerNames \cup {Hidden, Absent}])
  /\ nearby \in [Adverts -> Names \cup PeerNames \cup {Absent}]

\* While the service is up, the network is told the name that the window
\* shows, and so is the settings file unless the last save failed.
AdvertisesWhatIsShown ==
  service.at = "on" =>
    /\ lan[service.id] = app.name.text
    /\ kept # Unknown => Load(file).name = app.name.text

Advertises(i) == service.at = "on" /\ service.id = i
RemovalWaits(a) == \E k \in DOMAIN queue : queue[k] = Event(a, Absent)

\* The window lists an advertisement of its own computer in two cases only.
\* Spaces surround the name in the field, which poll_nearby compares untrimmed
\* (hirodrop-gui.rs:814); or the service that made the advertisement is gone and
\* left it on the network, for the name may have been edited since.  In the
\* second case it stays in the table no longer than it is announced and the
\* word of its removal takes to be polled.
ListsOnlyLeftovers ==
  \A i \in Own : nearby[i] # Absent =>
    IF Advertises(i) THEN app.name.padded
                     ELSE lan[i] # Absent \/ RemovalWaits(i)

\* A launch shows what was on display at the last save, unless that save, or
\* the reading, failed.
RelaunchShowsWhatWasSaved ==
  [][~app.up /\ app'.up /\ kept # Unknown /\ kept' # Unknown =>
       app'.name = Field(kept.name) /\ app'.auto = kept.auto]_vars

\* What is gone from the network for good leaves the table for good.  A device
\* that stays, under a name that is never typed here, is in it in the end.
TableFollowsTheNetwork ==
  /\ \A a \in Adverts : <>[](lan[a] = Absent) => <>[](nearby[a] = Absent)
  /\ \A p \in Peers, n \in PeerNames \ Names :
       <>[](lan[p] = n /\ app.browsing) => <>[](nearby[p] = n)

============================================================================
