------------------------------ MODULE MCFleet ------------------------------
(***************************************************************************)
(* Each behaviour follows one menu: a few calls around one of the          *)
(* questions, with the faults that bear on it.                             *)
(***************************************************************************)
EXTENDS Fleet

Machine(id, host, pass) == [Computer(id, host, pass, FALSE, 0) EXCEPT !.pass = Bare(pass)]
Found(list)             == Listing(list)
Pinned(m)               == [m EXCEPT !.tls = TRUE, !.trusted = {"Cert"}]

Base == [ops |-> {}, calls |-> 3, launches |-> 1, faults |-> {}, platforms |-> {"Works"},
         hosts |-> {1}, words |-> {"p"}, file |-> Absent, nextId |-> 10,
         backup |-> <<>>, legacy |-> FALSE]

Two   == <<Machine(1, 1, "p"), Machine(2, 2, "")>>
Three == <<Pinned(Machine(1, 1, "p")), Machine(2, 2, "p"), Machine(3, 3, "p")>>

\* Edits on a disk that may be full, with a restart in between.
Edits == [Base EXCEPT !.ops = {"SetData", "AddTrusted", "SetSsh", "Add", "Remove"},
                      !.faults = {"DiskFull", "Stop"}, !.launches = 2, !.file = Found(Two)]

\* The key store comes and goes from launch to launch.
Secrets == [Base EXCEPT !.ops = {"SetData", "Add"}, !.words = {"", "p", "q"}, !.calls = 3,
                     !.launches = 4, !.faults = {"Stop", "DiskFull"}, !.platforms = Platforms]

\* A backup of another day: one machine by identity, others by host and name, a new one.
Incoming == <<Computer(2, 1, "q", FALSE, 0), Computer(1, 1, "q", TRUE, 0),
              Computer(0, 2, "", FALSE, 0), Computer(5, 4, "p", FALSE, 0)>>
Imports == [Base EXCEPT !.ops = {"Export", "Prepare", "Apply", "Cancel", "Remove", "Add", "SetData"},
                        !.calls = 4, !.faults = {"DiskFull"}, !.hosts = {1, 2},
                        !.file = Found(Two), !.backup = Incoming]
ImportTwins == [Imports EXCEPT !.backup = <<Computer(7, 2, "q", FALSE, 0),
                                      Computer(2, 2, "p", FALSE, 0)>>]

\* One backup twice: its first import leaves two rows with one identity.
ImportAgain == [Imports EXCEPT !.ops = {"Prepare", "Apply", "Remove"}, !.calls = 5,
                               !.file = Found(<<Machine(1, 1, "p")>>),
                               !.backup = <<Computer(3, 1, "q", FALSE, 0),
                                             Computer(1, 5, "p", FALSE, 0)>>]

\* A backup carries the passwords from launch to launch, with and without the key store.
Carried == [Base EXCEPT !.ops = {"Add", "Export", "Prepare", "Apply"}, !.calls = 4,
                        !.launches = 4, !.faults = {"Stop"}, !.platforms = {"Works", "Absent"}]

\* A first launch beside a legacy profile.
Migrations == [Base EXCEPT !.ops = {"Add", "ImportCert", "Reload"}, !.calls = 2, !.launches = 3,
                           !.faults = Faults, !.legacy = TRUE]

Certificates == [Base EXCEPT !.ops = {"ImportCert", "RemoveCert", "Reload"}, !.calls = 5,
                             !.launches = 2, !.faults = {"DiskFull", "Stop", "Unreadable"}]

\* A batch over three machines, two at a time, while the list is edited.
Batches == [Base EXCEPT !.ops = {"Batch", "Retry", "Remove", "SetSsh"}, !.calls = 4,
                        !.faults = {"Stop"}, !.file = Found(Three)]

\* The batch dialog is hidden while jobs are pending, and a machine removed: with one
\* machine more than are selected.
HiddenBatch == {[Batches EXCEPT !.ops = {"Batch", "Remove"}, !.calls = 2,
                                !.file = Found(Append(Three, Machine(4, 4, "p")))]}

\* Scans one behind the other, the first cut short; and a scan whose devices are added.
Scans    == [Base EXCEPT !.ops = {"Scan", "StopScan", "AddSelected"}, !.calls = 4]
ScanAdds == [Base EXCEPT !.ops = {"Scan", "Select", "AddSelected", "Remove"}, !.calls = 3,
                         !.faults = {"DiskFull", "Stop"}]

AllMenus == {Edits, Secrets, Imports, ImportTwins, ImportAgain, Carried, Migrations,
             Certificates, Batches, Scans, ScanAdds}
=============================================================================
