----------------------------- MODULE MCDevices -----------------------------
(***************************************************************************)
(* Instances of Devices for TLC: who is at work in each run.               *)
(***************************************************************************)
EXTENDS Devices, TLC

CONSTANTS agent, agent2, admin, sweeper

\* One device that registers and reports, while the admin pages reconcile and
\* adopt it: five kinds of writers that save whole rows.
RowWriters == agent :> {"register", "report"}
              @@ admin :> {"reconcile", "adopt"}

\* Registrations and adoptions, three at a time.
Registrations == agent :> {"register"} @@ agent2 :> {"register"}
                 @@ admin :> {"adopt"}

\* A device that downloads what it reports on, while it is reconciled.
DownloadAndReport == agent :> {"register", "download", "report"}
                     @@ admin :> {"reconcile"}

\* An agent that polls, downloads and reports, and may fall silent, while the
\* admin pages reconcile and adopt its device, beside the sweeper.
Everyday == agent :> {"checksum", "download", "report"}
            @@ admin :> {"reconcile", "adopt"} @@ sweeper :> {"sweep"}

OnlyAdopt == admin :> {"adopt"}

\* Uuids are interchangeable, and so are keys.
Perms == Permutations(UUID) \cup Permutations(Key)

\* So are the tables of templates that decode.
Swaps == Permutations(Decodable)
=============================================================================
