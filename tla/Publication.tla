---- MODULE Publication ----
(***************************************************************************)
(* Publisher and Replica together: bohuno-updated writes and removes files *)
(* under the web server, and a bohuno-pyzord lists and downloads them, at  *)
(* any time in between.  The web server answers with the files there are.  *)
(***************************************************************************)
EXTENDS Publisher

CONSTANTS
    InOrder,     \* BOOLEAN: the server lists the updates in the order of time
    MaxTroubles  \* bound on crashes, refusals and bad files, together

ASSUME ReplicaAssumption == InOrder \in BOOLEAN /\ MaxTroubles \in Nat

VARIABLES replica, stored, durable, queue, download, scan, base, overtaken,
          refused, spoiled, troubles

R == INSTANCE Replica

replicaVars == <<replica, stored, durable, queue, download, scan, base, overtaken,
                 refused, spoiled, troubles>>

allVars == <<vars, replicaVars>>

----------------------------------------------------------------------------
SetUp == current # NoFile /\ R!SetUp(current)

ReplicaStep ==
    \/ SetUp
    \/ R!ScanStarts \/ R!ScanSucceeds(updates) \/ R!ScanFails \/ R!ScanRefused
    \/ R!Unlicensed \/ R!HandleStop
    \/ R!DownloadSucceeds(updates) \/ R!DownloadHangs(updates)
    \/ R!DownloadSpoiled(updates) \/ R!DownloadRefused(updates)
    \/ R!Checkpoint
    \/ R!Crash \/ R!CrashInImport(updates) \/ R!Restart

PublicationInit == Init /\ R!ReplicaInit

PublicationNext ==
    \/ Next /\ UNCHANGED replicaVars
    \/ ReplicaStep /\ UNCHANGED vars

\* The handlers of a running replica run; a download that is retried, and the
\* scan that follows a failed one, come through in the end.
Fairness ==
    /\ WF_allVars(/\ R!DownloadSucceeds(updates) \/ R!DownloadHangs(updates)
                  /\ UNCHANGED vars)
    /\ WF_allVars(R!DownloadRefused(updates) /\ R!FrontIsGone(updates) /\ UNCHANGED vars)
    /\ WF_allVars(R!ScanStarts /\ UNCHANGED vars)
    /\ SF_allVars(R!ScanSucceeds(updates) /\ UNCHANGED vars)
    /\ WF_allVars(R!Restart /\ UNCHANGED vars)

PublicationSpec == PublicationInit /\ [][PublicationNext]_allVars

FairSpec == PublicationSpec /\ Fairness

----------------------------------------------------------------------------
PublicationTypeOK == TypeOK /\ R!ReplicaTypeOK

\* The replica has what an update file says of its records, or something newer.
Has(u) ==
    \A h \in DOMAIN u.records :
        h \in Stored(stored) /\ u.records[h].updated <= stored[h].updated

\* A scan does not queue the update, and none has.
PassedOver(u) == ~R!Wanted(u.from) /\ ~R!Contains(queue, R!Name(u))

\* An update of a time that the updates before it had not reached: one that starts
\* before the end of an expired one goes over times again which a replica may have.
\* Such updates are only there when the expiry of the updates was cut.
GoesOn(u) == u.from >= gone

\* An update that a scan passes over as old is one the replica has, whatever expires,
\* is refused or is lost in a crash: if no import was spoiled and the queue was in
\* turn, and but for the update within which the snapshot it started from was made,
\* and for those that do not go on from the ones before them.
PassedOverIsHeld ==
    \A u \in updates :
        (/\ replica # "new" /\ ~spoiled /\ ~overtaken
         /\ u.from >= base /\ GoesOn(u)
         /\ PassedOver(u)) => Has(u)

\* The same without the exception, for a replica nothing happened to.
EveryUpdateSeen ==
    \A u \in updates :
        (/\ replica # "new" /\ troubles = 0
         /\ u.to > base
         /\ PassedOver(u)) => Has(u)

\* Only a refusal leaves a running replica with a queue and without a download.
QueueMoves == replica = "running" /\ queue # <<>> => download \/ refused

\* An update of a single moment, which make_update writes after make_snapshot has
\* made a file and then failed.  The next one starts at the same time: as long as both are
\* listed, a replica whose newest record is of that time may queue one behind the other
\* at every scan, and go back and forth.
Momentary(u) == u.from = u.to

\* Where nothing was refused or spoiled, a replica comes to hold every update
\* that stays on the server, but for the one its snapshot was made in, those that do
\* not go on from the ones before them, and while there is one of a single moment.
CatchesUp ==
    <>[](replica = "running" /\ scan # "off" /\ ~refused /\ ~spoiled
           => \A u \in updates :
                u.from >= base /\ GoesOn(u) => Has(u) \/ \E v \in updates : Momentary(v))

\* No record of the replica goes, or goes back to an older version, but in a crash;
\* unless an update was queued behind a later one: one that was seen already is, when
\* the newest record has the time at which it starts.
NeverOlder ==
    [][replica' = replica /\ ~overtaken
         => \A h \in Stored(stored) : /\ h \in Stored(stored')
                                      /\ stored[h].updated <= stored'[h].updated]_allVars

====
