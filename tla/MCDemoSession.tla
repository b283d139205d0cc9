--------------------------- MODULE MCDemoSession ---------------------------
(***************************************************************************)
(* Instances of DemoSession.  A visitor is alone with one tab, for every   *)
(* session and fault the bounds allow, or uses two tabs of one browser,    *)
(* for one fault and a session less.                                       *)
(***************************************************************************)
EXTENDS DemoSession

VARIABLE alone

FirstTab == CHOOSE t \in Tab : TRUE

InFocus ==
    IF alone THEN \A t \in Tab \ {FirstTab} : ~Busy(t) /\ tab[t] = Blank
    ELSE faults < MaxFault /\ minted < MaxSession

MCInit == Init /\ alone \in BOOLEAN

MCNext == UNCHANGED alone /\ Next /\ InFocus'

MCSpec == MCInit /\ [][MCNext]_<<vars, alone>>

---------------------------------------------------------------------------
\* With one tab, everything on the page comes from the session the cookie names, although a
\* start may have replaced the cookie without the page learning of it (run clears the history
\* when it sends a restart, not when it succeeds).  And the ask_after the page compares with
\* ask_before speaks of the corrected revision, and so does the latest receipt: an unfinished
\* correct is never passed over (createHackathonLive.run answers it incomplete_prior_attempt).
OneStoryShown ==
    alone => \A i \in DOMAIN tab[FirstTab].history :
        LET entry == tab[FirstTab].history[i]
        IN  /\ jar \in {0, entry.session}
            /\ entry.step \in {"ask_after", "latest_receipt"} => entry.revision = 2
=============================================================================
