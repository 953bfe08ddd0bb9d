---------------------------- MODULE MCUpdateCycle ----------------------------
(***************************************************************************)
(* UpdateCycle for TLC.  Two credentials, one of them not accepted, show a *)
(* change of account and a failed login; two Jenkins jobs show a loop over *)
(* answers.  One device, which shows the text or not, is enough for what a *)
(* cycle makes of an update: the loop over devices is the updater's.  There*)
(* are two texts, which is enough for one that changes and comes back:     *)
(* a text changes whenever one part of it begins or ceases to say anything.*)
(***************************************************************************)
EXTENDS UpdateCycle

CONSTANTS good, bad, d1, t1, t2, url, windows, debian

MCJobs == <<windows, debian>>

MCRender ==
    [d \in Drafts |->
        LET says == (IF d.calendar # {} THEN {"calendar"} ELSE {})
                    \cup (IF d.jira = "items" THEN {"jira"} ELSE {})
                    \cup (IF d.jenkins \in {Absent, {}} THEN {} ELSE {"jenkins"})
        IN  IF Cardinality(says) % 2 = 0 THEN t1 ELSE t2]
=============================================================================
