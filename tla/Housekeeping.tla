---------------------------- MODULE Housekeeping ----------------------------
(***************************************************************************)
(* Execute together with the clean-up README.md recommends for the files   *)
(* that failed runs leave behind:                                          *)
(*    find CERTBASE -name '*-[0-9]*.pem' -type f -mtime +1 -delete         *)
(* It looks at a file's name and age only, so it also removes the file a   *)
(* link leads to.  What does the next run of the client make of that?      *)
(***************************************************************************)
EXTENDS Execute

CONSTANT Age        \* the age, in ticks of the clock, from which files are removed

ASSUME AgeAssumption == Age \in Nat

VARIABLE purged     \* purged[p]: was a file removed since p started?

allVars == <<vars, purged>>

PurgeInit == Init /\ purged = [p \in Proc |-> FALSE]

\* find -delete removes a file with an infixed name; plain names do not match.
Purge(i, t) ==
    /\ file[i][t] # None
    /\ file[i][t].mtime + Age <= now
    /\ file' = [file EXCEPT ![i][t] = None]
    /\ purged' = [p \in Proc |-> pc[p] # "idle"]
    /\ UNCHANGED <<now, pub, link, plain, tmp, stamp, pc, idx, ims, data, seen,
                   infix, todo, optVars>>

\* A step of Execute; a process that is idle has forgotten about removals.
Step ==
    /\ Next
    /\ purged' = [p \in Proc |-> purged[p] /\ pc'[p] # "idle"]

PurgeNext == Step \/ \E i \in Item, t \in Time : Purge(i, t)

PurgeSpec == PurgeInit /\ [][PurgeNext]_allVars

-----------------------------------------------------------------------------
\* Properties.

\* A run that no clean-up disturbs repairs what earlier clean-ups have done: at
\* its hook every name the server answered for leads to a fresh file again,
\* though the run may have started with dangling links and was not forced.  About
\* os.Stat in Execute, which must not take a dangling link for a current copy.
RestoresPurged ==
    \A p \in Proc : ~purged[p] => FreshAtHook(p)

\* A forced run with one generation on the server leaves matching files: the way
\* out of a key and a certificate that do not match after a renewal between two
\* GETs of an earlier run, of a renewal hidden behind a 304 and of a clean-up.
\* About cert.Force; for one client at a time.
ForcedRunMatches ==
    \A p \in Proc : ~purged[p] => MatchesAtHook(p)

\* "stale files indicate incomplete writes and can safely be removed"
\* (README.md:350): the clean-up changes nothing a reader of a name can see.
PurgeIsSafe ==
    [][(\E i \in Item, t \in Time : Purge(i, t))
         => \A j \in Item : Resolve(j)' = Resolve(j)]_allVars

=============================================================================
