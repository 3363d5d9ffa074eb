----------------------- MODULE ExtractionReviewProofs -----------------------
(***************************************************************************)
(* Theorems about ExtractionReview, for any pages, texts and number of     *)
(* sessions: what holds however requests overlap, and after that what      *)
(* holds when they do not (Serial).                                        *)
(***************************************************************************)
EXTENDS ExtractionReview, TLAPS

USE ReviewAssumption, NoneAssumption

-----------------------------------------------------------------------------
(* What the handlers compute has its type.                                 *)

LEMMA SummaryType ==
  ASSUME NEW st, NEW pages
  PROVE  /\ Summary("review_required", pages) \in Reviews
         /\ Summary("confirmed", pages) \in Reviews
  BY DEF Summary, Reviews

LEMMA PageAfterType ==
  ASSUME NEW pg \in Page, NEW text \in Texts
  PROVE  PageAfter(pg, text) \in Page
  BY DEF PageAfter, Page, PageStates

LEMMA FinalTextType ==
  ASSUME NEW pg \in Page
  PROVE  FinalText(pg) \in Texts
  BY DEF FinalText, Page

LEMMA MetaAfterPatchType ==
  ASSUME NEW b \in Copy, NEW p \in Pages, NEW text \in Texts
  PROVE  MetaAfterPatch(b, p, text) \in Meta
<1> DEFINE pages == [b.page EXCEPT ![p] = PageAfter(b.page[p], text)]
<1>1. b.meta \in Meta /\ b.status \in {"review_required", "confirmed"}
  BY DEF Copy
<1> DEFINE review == Summary(b.status, pages)
           can == CanConfirm(b.status, pages)
           version == b.meta.version + 1
<1>2. review \in Reviews
  BY <1>1, SummaryType
<1>3. can \in BOOLEAN
  BY DEF CanConfirm
<1>4. MetaAfterPatch(b, p, text) = [b.meta EXCEPT !.version = version, !.review = review,
                                                  !.canConfirm = can]
  BY DEF MetaAfterPatch
<1>5. version \in Nat
  BY <1>1 DEF Meta
<1> HIDE DEF review, can, version
<1> QED
  BY <1>1, <1>2, <1>3, <1>4, <1>5 DEF Meta

LEMMA MetaAfterConfirmType ==
  ASSUME NEW b \in Copy
  PROVE  MetaAfterConfirm(b) \in Meta
<1>1. b.meta \in Meta /\ b.page \in [Pages -> Page]
  BY DEF Copy
<1>2. [p \in Pages |-> FinalText(b.page[p])] \in Snapshot
  BY <1>1, FinalTextType DEF Snapshot
<1> QED
  BY <1>1, <1>2 DEF MetaAfterConfirm, Meta, Reviews

LEMMA NowType ==
  ASSUME TypeOK
  PROVE  Now \in Copy /\ Now # None
  BY DEF TypeOK, Now, Copy

-----------------------------------------------------------------------------
(* Type correctness.                                                       *)

LEMMA InitType == Init => TypeOK
<1> SUFFICES ASSUME Init PROVE TypeOK
  OBVIOUS
<1>1. meta \in Meta
  BY DEF Init, Meta, Reviews
<1>2. page \in [Pages -> Page]
  BY DEF Init, Page, PageStates
<1>3. session \in [Sessions -> Session]
  BY DEF Init, Session
<1> QED
  BY <1>1, <1>2, <1>3 DEF Init, TypeOK

LEMMA DoneType ==
  ASSUME TypeOK, NEW s \in Sessions, Done(s)
  PROVE  /\ session' \in [Sessions -> Session]
         /\ session'[s].pc = "idle"
         /\ \A o \in Sessions \ {s} : session'[o] = session[o]
  BY DEF TypeOK, Done, Session

\* A running analysis has a snapshot, and the document it was to add to exists.
AnalysisInv ==
  \A s \in Sessions : session[s].pc = "analysing" =>
    /\ session[s].base.meta.snapshot # None
    /\ session[s].hadDocument => document # None

\* What an analysis reads: the document's clauses, or the snapshot to make them of.
LEMMA AnalysedTextType ==
  ASSUME TypeOK, AnalysisInv, NEW s \in Sessions, session[s].pc = "analysing"
  PROVE  /\ session[s].base.meta.snapshot \in Snapshot
         /\ session[s].base.meta.snapVersion \in Nat
         /\ session[s].hadDocument => document \in Snapshot
<1>1. session[s].base \in Copy
  BY DEF TypeOK, Session
<1>2. session[s].base.meta \in Meta
  BY <1>1 DEF Copy
<1> QED
  BY <1>2 DEF Meta, TypeOK, AnalysisInv

LEMMA TypeStep == TypeOK /\ AnalysisInv /\ [Next]_vars => TypeOK'
<1> SUFFICES ASSUME TypeOK, AnalysisInv, [Next]_vars PROVE TypeOK'
  OBVIOUS
<1>1. ASSUME NEW s \in Sessions, Open(s) PROVE TypeOK'
  <2> DEFINE m == [session[s] EXCEPT !.seen = Now]
  <2>0. m \in Session
    BY NowType DEF TypeOK, Session
  <2>1. session' \in [Sessions -> Session]
    BY <1>1, <2>0 DEF Open, TypeOK
  <2>2. \A o \in Sessions : /\ session'[o].pc = session[o].pc
                            /\ session'[o].page = session[o].page
                            /\ session'[o].text = session[o].text
                            /\ session'[o].base = session[o].base
                            /\ session[o].seen # None => session'[o].seen # None
    BY <1>1, NowType DEF Open, TypeOK, Session
  <2> QED
    BY <1>1, <2>1, <2>2 DEF Open, TypeOK
<1>2. ASSUME NEW s \in Sessions, NEW p \in Required, NEW text \in Texts,
             PatchRead(s, p, text)
      PROVE  TypeOK'
  <2> DEFINE m == [session[s] EXCEPT !.pc = "patching", !.base = Now, !.page = p, !.text = text]
  <2>0. m \in Session
    BY NowType, ZenonT(40) DEF TypeOK, Session
  <2>1. session' \in [Sessions -> Session]
    BY <1>2, <2>0 DEF PatchRead, TypeOK
  <2>2. /\ session'[s].pc = "patching" /\ session'[s].base = Now
        /\ session'[s].page = p /\ session'[s].text = text
        /\ session'[s].seen = session[s].seen /\ session[s].seen # None
    BY <1>2 DEF PatchRead, TypeOK, Session
  <2>3. \A o \in Sessions \ {s} : session'[o] = session[o]
    BY <1>2 DEF PatchRead, TypeOK
  <2> QED
    BY <1>2, <2>1, <2>2, <2>3, NowType DEF PatchRead, TypeOK
<1>3. ASSUME NEW s \in Sessions, PatchWrite(s) PROVE TypeOK'
  <2>1. /\ session[s].base \in Copy /\ session[s].page \in Required
        /\ session[s].text \in Texts
    BY <1>3 DEF PatchWrite, TypeOK, Session
  <2>2. session[s].base.page \in [Pages -> Page]
    BY <2>1 DEF Copy
  <2>3. page' \in [Pages -> Page]
    BY <1>3, <2>1, <2>2, PageAfterType DEF PatchWrite, TypeOK
  <2>4. meta' \in Meta
    BY <1>3, <2>1, MetaAfterPatchType DEF PatchWrite
  <2>5. submitted' \subseteq Required \X Texts
    BY <1>3, <2>1 DEF PatchWrite, TypeOK
  <2>6. Done(s)
    BY <1>3 DEF PatchWrite
  <2> QED
    BY <1>3, <2>3, <2>4, <2>5, <2>6, DoneType DEF PatchWrite, TypeOK
<1>4. ASSUME NEW s \in Sessions, ConfirmRead(s) PROVE TypeOK'
  <2> DEFINE m == [session[s] EXCEPT !.pc = "confirming", !.base = Now]
  <2>0. m \in Session
    BY NowType, ZenonT(40) DEF TypeOK, Session
  <2>1. session' \in [Sessions -> Session]
    BY <1>4, <2>0 DEF ConfirmRead, TypeOK
  <2>2. /\ session'[s].pc = "confirming" /\ session'[s].base = Now
        /\ session'[s].seen = session[s].seen /\ session[s].seen # None
    BY <1>4 DEF ConfirmRead, TypeOK, Session
  <2>3. \A o \in Sessions \ {s} : session'[o] = session[o]
    BY <1>4 DEF ConfirmRead, TypeOK
  <2> QED
    BY <1>4, <2>1, <2>2, <2>3, NowType DEF ConfirmRead, TypeOK
<1>5. ASSUME NEW s \in Sessions, ConfirmWrite(s) PROVE TypeOK'
  <2>1. session[s].base \in Copy
    BY <1>5 DEF ConfirmWrite, TypeOK, Session
  <2>2. session[s].base.page \in [Pages -> Page]
    BY <2>1 DEF Copy
  <2>3. page' \in [Pages -> Page]
    <3>1. ASSUME NEW pg \in Page
          PROVE  [pg EXCEPT !.status = "confirmed", !.version = pg.version + 1] \in Page
      <4> DEFINE version == pg.version + 1
      <4>1. version \in Nat
        BY DEF Page
      <4> HIDE DEF version
      <4>2. [pg EXCEPT !.status = "confirmed", !.version = version] \in Page
        BY <4>1 DEF Page, PageStates
      <4> QED
        BY <4>2 DEF version
    <3> QED
      BY <1>5, <2>2, <3>1 DEF ConfirmWrite
  <2>4. meta' \in Meta
    BY <1>5, <2>1, MetaAfterConfirmType DEF ConfirmWrite
  <2>5. Done(s)
    BY <1>5 DEF ConfirmWrite
  <2> QED
    BY <1>5, <2>3, <2>4, <2>5, DoneType DEF ConfirmWrite, TypeOK
<1>6. ASSUME NEW s \in Sessions, AnalyseRead(s) PROVE TypeOK'
  <2> DEFINE m == [session[s] EXCEPT !.pc = "analysing", !.base = Now,
                              !.hadDocument = (document # None)]
  <2>0. m \in Session
    BY NowType, ZenonT(40) DEF TypeOK, Session
  <2>1. session' \in [Sessions -> Session]
    BY <1>6, <2>0 DEF AnalyseRead, TypeOK
  <2>2. /\ session'[s].pc = "analysing" /\ session'[s].base = Now
        /\ session'[s].seen = session[s].seen /\ session[s].seen # None
    BY <1>6 DEF AnalyseRead, TypeOK, Session
  <2>3. \A o \in Sessions \ {s} : session'[o] = session[o]
    BY <1>6 DEF AnalyseRead, TypeOK
  <2> QED
    BY <1>6, <2>1, <2>2, <2>3, NowType DEF AnalyseRead, TypeOK
<1>7. ASSUME NEW s \in Sessions, AnalyseWrite(s) PROVE TypeOK'
  <2> DEFINE text == IF session[s].hadDocument THEN document ELSE session[s].base.meta.snapshot
             job == [revision |-> session[s].base.meta.snapVersion, text |-> text]
  <2>1. session[s].pc = "analysing" /\ Done(s)
    BY <1>7 DEF AnalyseWrite
  <2>2. text \in Snapshot /\ job \in [revision : Nat, text : Snapshot]
    BY <2>1, AnalysedTextType
  <2>3. \/ document' = document /\ jobs' = jobs
        \/ document' = text /\ jobs' = jobs \cup {job}
    BY <1>7 DEF AnalyseWrite
  <2> HIDE DEF text, job
  <2>4. document' \in Snapshot \cup {None} /\ jobs' \subseteq [revision : Nat, text : Snapshot]
    BY <2>2, <2>3 DEF TypeOK
  <2> QED
    BY <1>7, <2>1, <2>4, DoneType DEF AnalyseWrite, TypeOK
<1>8. CASE UNCHANGED vars
  BY <1>8 DEF vars, TypeOK
<1> QED
  BY <1>1, <1>2, <1>3, <1>4, <1>5, <1>6, <1>7, <1>8 DEF Next
-----------------------------------------------------------------------------
(* Only reviewed text, and the clauses of one snapshot.                    *)

\* A reviewed or edited page would be confirmed with a text submitted for it.
PagesSubmitted(pages) ==
  \A p \in Required : pages[p].status \in {"reviewed", "edited"}
                        => <<p, FinalText(pages[p])>> \in submitted

SnapshotSubmitted(snapshot) ==
  snapshot # None => \A p \in Required : <<p, snapshot[p]>> \in submitted

\* What the rows say of submitted texts, every request has read so as well.
SubmittedInv ==
  /\ PagesSubmitted(page)
  /\ SnapshotSubmitted(meta.snapshot)
  /\ SnapshotSubmitted(document)
  /\ \A job \in jobs : SnapshotSubmitted(job.text)
  /\ \A s \in Sessions : session[s].pc # "idle" =>
       /\ PagesSubmitted(session[s].base.page)
       /\ SnapshotSubmitted(session[s].base.meta.snapshot)
       /\ session[s].pc = "confirming" => Ready(session[s].base.page)

ReviewInv == TypeOK /\ AnalysisInv /\ SubmittedInv /\ ClausesAreMadeOnce

LEMMA InitReviewInv == Init => ReviewInv
<1> SUFFICES ASSUME Init PROVE ReviewInv
  OBVIOUS
<1>1. TypeOK
  BY InitType
<1>2. AnalysisInv /\ ClausesAreMadeOnce
  BY DEF Init, AnalysisInv, ClausesAreMadeOnce
<1>3. SubmittedInv
  BY DEF Init, SubmittedInv, PagesSubmitted, SnapshotSubmitted
<1> QED
  BY <1>1, <1>2, <1>3 DEF ReviewInv

LEMMA ReviewStep == ReviewInv /\ [Next]_vars => ReviewInv'
<1> SUFFICES ASSUME ReviewInv, [Next]_vars PROVE ReviewInv'
  OBVIOUS
<1> USE DEF ReviewInv
<1>0. TypeOK'
  BY TypeStep
<1>1. ASSUME NEW s \in Sessions, Open(s) PROVE ReviewInv'
  <2>1. \A o \in Sessions : /\ session'[o].pc = session[o].pc
                            /\ session'[o].base = session[o].base
                            /\ session'[o].hadDocument = session[o].hadDocument
    BY <1>1 DEF Open, TypeOK, Session
  <2>2. AnalysisInv' /\ ClausesAreMadeOnce'
    BY <1>1, <2>1 DEF Open, AnalysisInv, ClausesAreMadeOnce
  <2>3. SubmittedInv'
    BY <1>1, <2>1 DEF Open, SubmittedInv, PagesSubmitted, SnapshotSubmitted
  <2> QED
    BY <1>0, <2>2, <2>3
<1>2. ASSUME NEW s \in Sessions, NEW p \in Required, NEW text \in Texts,
             PatchRead(s, p, text)
      PROVE  ReviewInv'
  <2>1. session'[s].pc = "patching" /\ session'[s].base = Now
    BY <1>2 DEF PatchRead, TypeOK, Session
  <2>2. \A o \in Sessions \ {s} : session'[o] = session[o]
    BY <1>2 DEF PatchRead, TypeOK
  <2>3. AnalysisInv' /\ ClausesAreMadeOnce'
    BY <1>2, <2>1, <2>2 DEF PatchRead, AnalysisInv, ClausesAreMadeOnce
  <2>4. SubmittedInv'
    BY <1>2, <2>1, <2>2 DEF PatchRead, SubmittedInv, PagesSubmitted, SnapshotSubmitted, Now
  <2> QED
    BY <1>0, <2>3, <2>4
<1>3. ASSUME NEW s \in Sessions, PatchWrite(s) PROVE ReviewInv'
  <2> DEFINE b == session[s].base
             p == session[s].page
             text == session[s].text
  <2>1. Done(s) /\ b \in Copy /\ p \in Required /\ text \in Texts
    BY <1>3 DEF PatchWrite, TypeOK, Session
  <2>2. submitted' = submitted \cup {<<p, text>>}
    BY <1>3 DEF PatchWrite
  <2>3. meta'.snapshot = b.meta.snapshot
    BY <1>3, <2>1 DEF PatchWrite, MetaAfterPatch, Copy, Meta
  <2>4. FinalText(PageAfter(b.page[p], text)) = text
    BY DEF FinalText, PageAfter
  <2>5. AnalysisInv' /\ ClausesAreMadeOnce'
    BY <1>3, <2>1, DoneType DEF PatchWrite, AnalysisInv, ClausesAreMadeOnce
  <2>6. PagesSubmitted(page)'
    <3> SUFFICES ASSUME NEW q \in Required, page'[q].status \in {"reviewed", "edited"}
                 PROVE  <<q, FinalText(page'[q])>> \in submitted'
      BY DEF PagesSubmitted, FinalText
    <3>1. CASE q = p
      BY <1>3, <2>1, <2>2, <2>4, <3>1 DEF PatchWrite, TypeOK
    <3>2. CASE q # p
      BY <1>3, <2>1, <2>2, <3>2 DEF PatchWrite, TypeOK, SubmittedInv, PagesSubmitted
    <3> QED
      BY <3>1, <3>2
  <2>7. \A o \in Sessions : session'[o].pc # "idle" => o # s /\ session'[o] = session[o]
    BY <2>1, DoneType
  <2>8. SubmittedInv'
    BY <1>3, <2>2, <2>3, <2>6, <2>7
    DEF PatchWrite, SubmittedInv, PagesSubmitted, SnapshotSubmitted
  <2> QED
    BY <1>0, <2>5, <2>8
<1>4. ASSUME NEW s \in Sessions, ConfirmRead(s) PROVE ReviewInv'
  <2>1. session'[s].pc = "confirming" /\ session'[s].base = Now
    BY <1>4 DEF ConfirmRead, TypeOK, Session
  <2>2. \A o \in Sessions \ {s} : session'[o] = session[o]
    BY <1>4 DEF ConfirmRead, TypeOK
  <2>3. AnalysisInv' /\ ClausesAreMadeOnce'
    BY <1>4, <2>1, <2>2 DEF ConfirmRead, AnalysisInv, ClausesAreMadeOnce
  <2>4. Ready(session'[s].base.page)
    BY <1>4, <2>1 DEF ConfirmRead, Now
  <2>5. SubmittedInv'
    BY <1>4, <2>1, <2>2, <2>4
    DEF ConfirmRead, SubmittedInv, PagesSubmitted, SnapshotSubmitted, Now
  <2> QED
    BY <1>0, <2>3, <2>5
<1>5. ASSUME NEW s \in Sessions, ConfirmWrite(s) PROVE ReviewInv'
  <2> DEFINE b == session[s].base
  <2>1. Done(s) /\ b \in Copy /\ Ready(b.page) /\ PagesSubmitted(b.page)
    BY <1>5 DEF ConfirmWrite, TypeOK, Session, SubmittedInv
  <2>2. \A p \in Required : b.page[p].status \in {"reviewed", "edited"}
    BY <2>1 DEF Ready, Reviewed
  <2>3. SnapshotSubmitted(meta.snapshot)'
    BY <1>5, <2>1, <2>2 DEF ConfirmWrite, MetaAfterConfirm, PagesSubmitted, SnapshotSubmitted
  <2>4. \A p \in Required : page'[p].status = "confirmed"
    BY <1>5, <2>1 DEF ConfirmWrite, Copy, Page
  <2>5. AnalysisInv' /\ ClausesAreMadeOnce'
    BY <1>5, <2>1, DoneType DEF ConfirmWrite, AnalysisInv, ClausesAreMadeOnce
  <2>6. \A o \in Sessions : session'[o].pc # "idle" => o # s /\ session'[o] = session[o]
    BY <2>1, DoneType
  <2>7. SubmittedInv'
    BY <1>5, <2>3, <2>4, <2>6 DEF ConfirmWrite, SubmittedInv, PagesSubmitted, SnapshotSubmitted
  <2> QED
    BY <1>0, <2>5, <2>7
<1>6. ASSUME NEW s \in Sessions, AnalyseRead(s) PROVE ReviewInv'
  <2>1. /\ session'[s].pc = "analysing" /\ session'[s].base = Now
        /\ session'[s].hadDocument => document # None
    BY <1>6, ZenonT(40) DEF AnalyseRead, TypeOK, Session
  <2>2. \A o \in Sessions \ {s} : session'[o] = session[o]
    BY <1>6 DEF AnalyseRead, TypeOK
  <2>3. AnalysisInv' /\ ClausesAreMadeOnce'
    <3>1. session'[s].base.meta.snapshot # None
      BY <1>6, <2>1 DEF AnalyseRead, Now
    <3>2. document' = document /\ jobs' = jobs
      BY <1>6 DEF AnalyseRead
    <3> QED
      BY <2>1, <2>2, <3>1, <3>2 DEF AnalysisInv, ClausesAreMadeOnce
  <2>4. SubmittedInv'
    BY <1>6, <2>1, <2>2 DEF AnalyseRead, SubmittedInv, PagesSubmitted, SnapshotSubmitted, Now
  <2> QED
    BY <1>0, <2>3, <2>4
<1>7. ASSUME NEW s \in Sessions, AnalyseWrite(s) PROVE ReviewInv'
  <2> DEFINE text == IF session[s].hadDocument THEN document ELSE session[s].base.meta.snapshot
             job == [revision |-> session[s].base.meta.snapVersion, text |-> text]
  <2>1. session[s].pc = "analysing" /\ Done(s)
    BY <1>7 DEF AnalyseWrite
  <2>2. text # None /\ SnapshotSubmitted(text) /\ job.text = text
    BY <2>1 DEF AnalysisInv, SubmittedInv
  <2>3. \/ document' = document /\ jobs' = jobs
        \/ /\ document = None \/ text = document
           /\ document' = text /\ jobs' = jobs \cup {job}
    BY <1>7 DEF AnalyseWrite
  <2>4. \A o \in Sessions : session'[o].pc # "idle" => o # s /\ session'[o] = session[o]
    BY <2>1, DoneType
  <2> HIDE DEF text, job
  <2>5. document # None => document' # None
    BY <2>2, <2>3
  <2>6. AnalysisInv'
    BY <2>4, <2>5 DEF AnalysisInv
  <2>7. ClausesAreMadeOnce'
    BY <2>2, <2>3 DEF ClausesAreMadeOnce
  <2>8. SubmittedInv'
    BY <1>7, <2>2, <2>3, <2>4 DEF AnalyseWrite, SubmittedInv, PagesSubmitted, SnapshotSubmitted
  <2> QED
    BY <1>0, <2>6, <2>7, <2>8
<1>8. CASE UNCHANGED vars
  BY <1>0, <1>8 DEF vars, AnalysisInv, SubmittedInv, PagesSubmitted, SnapshotSubmitted,
                    ClausesAreMadeOnce
<1> QED
  BY <1>1, <1>2, <1>3, <1>4, <1>5, <1>6, <1>7, <1>8 DEF Next

LEMMA ReviewInvariant == Spec => []ReviewInv
<1>1. Init => ReviewInv
  BY InitReviewInv
<1>2. ReviewInv /\ [Next]_vars => ReviewInv'
  BY ReviewStep
<1> QED
  BY <1>1, <1>2, PTL DEF Spec

\* Every variable keeps its type, the copies of overlapping requests included.
THEOREM ReviewTypeCorrect == Spec => []TypeOK
<1>1. ReviewInv => TypeOK
  BY DEF ReviewInv
<1> QED
  BY <1>1, ReviewInvariant, PTL

\* However requests overlap, a text that is confirmed or analysed was submitted by
\* a user for its page when the page had to be reviewed (_build_confirmation_snapshot).
THEOREM OnlyReviewedTextIsUsed == Spec => []OnlyReviewedText
<1>1. ReviewInv => OnlyReviewedText
  BY DEF ReviewInv, SubmittedInv, SnapshotSubmitted, OnlyReviewedText
<1> QED
  BY <1>1, ReviewInvariant, PTL

\* However requests overlap, all jobs of an extraction analyse the clauses that were
\* made first (_load_or_create_analysis_document).
THEOREM AllJobsUseTheSameClauses == Spec => []ClausesAreMadeOnce
<1>1. ReviewInv => ClausesAreMadeOnce
  BY DEF ReviewInv
<1> QED
  BY <1>1, ReviewInvariant, PTL

-----------------------------------------------------------------------------
(* Requests that do not overlap, with any number of users who work from    *)
(* views of any age.                                                       *)
(*                                                                         *)
(* Two facts carry them: the copy a request works on is still what is      *)
(* stored, and what a user was shown is still what is stored when its      *)
(* version is.                                                             *)

OneAtATime == \A s, o \in Sessions : s # o => session[s].pc = "idle" \/ session[o].pc = "idle"

\* What a request found still holds when it commits.
FoundInv(s) ==
  /\ session[s].pc # "idle" => session[s].base = Now
  /\ session[s].pc = "patching" =>
       /\ status # "confirmed"
       /\ session[s].seen.page[session[s].page].version = page[session[s].page].version
  /\ session[s].pc = "confirming" =>
       status # "confirmed" /\ session[s].seen.meta.version = meta.version
  /\ session[s].pc = "analysing" =>
       status = "confirmed" /\ session[s].hadDocument = (document # None)

\* Versions identify what a user was shown.
SeenInv(s) == session[s].seen # None =>
  /\ session[s].seen.meta.version <= meta.version
  /\ session[s].seen.meta.version = meta.version => session[s].seen.page = page
  /\ \A p \in Pages :
       /\ session[s].seen.page[p].version <= page[p].version
       /\ session[s].seen.page[p].version = page[p].version => session[s].seen.page[p] = page[p]

\* Before the confirmation there is nothing that depends on it.
OpenInv == status # "confirmed" =>
  /\ meta.snapVersion = 0 /\ document = None /\ jobs = {}
  /\ \A p \in Pages : page[p].status # "edited" => page[p].text = Original

\* Clauses are those of the snapshot.
DocumentInv == document # None => document = meta.snapshot

SerialInv ==
  /\ OneAtATime /\ OpenInv /\ DocumentInv
  /\ ConfirmationIsFinal /\ SummaryMatchesPages /\ AnalysedIsConfirmed
  /\ \A s \in Sessions : FoundInv(s) /\ SeenInv(s)

-----------------------------------------------------------------------------
(* Requests begin.                                                         *)

\* A step that changes one session and none of the rows.
LEMMA ReadStep ==
  ASSUME TypeOK, SerialInv, NEW s \in Sessions, NEW m,
         session' = [session EXCEPT ![s] = m], \A o \in Sessions : session[o].pc = "idle",
         UNCHANGED <<status, meta, page, document, jobs>>,
         FoundInv(s)', SeenInv(s)'
  PROVE  SerialInv'
<1>1. \A o \in Sessions \ {s} : session'[o] = session[o]
  BY DEF TypeOK
<1>2. \A o \in Sessions \ {s} : FoundInv(o)' /\ SeenInv(o)'
  BY <1>1 DEF SerialInv, FoundInv, SeenInv
<1>3. OneAtATime'
  BY <1>1 DEF OneAtATime
<1>4. OpenInv' /\ DocumentInv' /\ ConfirmationIsFinal' /\ SummaryMatchesPages' /\ AnalysedIsConfirmed'
  BY DEF SerialInv, OpenInv, DocumentInv, ConfirmationIsFinal, SummaryMatchesPages, AnalysedIsConfirmed,
         Summary, CanConfirm, Reviewed
<1> QED
  BY <1>2, <1>3, <1>4 DEF SerialInv

LEMMA AllIdle ==
  ASSUME Serial, NEW s \in Sessions, Idle(s)
  PROVE  \A o \in Sessions : session[o].pc = "idle"
  BY DEF Idle

LEMMA OpenStep ==
  ASSUME Serial, TypeOK, SerialInv, NEW s \in Sessions, Open(s)
  PROVE  SerialInv'
<1> DEFINE m == [session[s] EXCEPT !.seen = Now]
<1>1. /\ session' = [session EXCEPT ![s] = m] /\ \A o \in Sessions : session[o].pc = "idle"
      /\ UNCHANGED <<status, meta, page, document, jobs>>
  BY AllIdle DEF Open
<1>2. session'[s] = m /\ m.pc = "idle" /\ m.seen = Now
  BY <1>1 DEF TypeOK, Session
<1>3. meta.version \in Nat /\ \A p \in Pages : page[p].version \in Nat
  BY DEF TypeOK, Meta, Page
<1>4. Now.meta = meta /\ Now.page = page
  BY DEF Now
<1> HIDE DEF m
<1>5. FoundInv(s)'
  BY <1>2 DEF FoundInv
<1>6. SeenInv(s)'
  BY <1>1, <1>2, <1>3, <1>4 DEF SeenInv
<1> QED
  BY <1>1, <1>5, <1>6, ReadStep

\* The start of a patch, a confirmation or an analysis.
LEMMA BeginStep ==
  ASSUME Serial, TypeOK, SerialInv, NEW s \in Sessions, NEW m \in Session, Idle(s),
         session' = [session EXCEPT ![s] = m],
         UNCHANGED <<status, meta, page, document, jobs>>,
         m.base = Now, m.seen = session[s].seen, m.pc \in {"patching", "confirming", "analysing"},
         m.pc = "patching" => /\ status # "confirmed"
                              /\ m.seen.page[m.page].version = page[m.page].version,
         m.pc = "confirming" => status # "confirmed" /\ m.seen.meta.version = meta.version,
         m.pc = "analysing" => status = "confirmed" /\ m.hadDocument = (document # None)
  PROVE  SerialInv'
<1>1. session'[s] = m /\ \A o \in Sessions : session[o].pc = "idle"
  BY AllIdle DEF TypeOK
<1>2. Now' = Now
  BY DEF Now
<1>3. FoundInv(s)'
  BY <1>1, <1>2 DEF FoundInv
<1>4. SeenInv(s)'
  BY <1>1 DEF SerialInv, SeenInv
<1> QED
  BY <1>1, <1>3, <1>4, ReadStep

LEMMA PatchReadStep ==
  ASSUME Serial, TypeOK, SerialInv, NEW s \in Sessions, NEW p \in Required, NEW text \in Texts,
         PatchRead(s, p, text)
  PROVE  SerialInv'
<1> DEFINE m == [session[s] EXCEPT !.pc = "patching", !.base = Now, !.page = p, !.text = text]
<1>0. session[s] \in Session /\ Now \in Copy /\ p \in Pages
  BY NowType DEF TypeOK
<1>1. /\ m \in Session /\ m.pc = "patching" /\ m.base = Now /\ m.page = p
      /\ m.seen = session[s].seen
  BY <1>0 DEF Session
<1>2. session' = [session EXCEPT ![s] = m] /\ UNCHANGED <<status, meta, page, document, jobs>>
  BY DEF PatchRead
<1>3. Idle(s) /\ status # "confirmed" /\ session[s].seen.page[p].version = page[p].version
  BY DEF PatchRead
<1> HIDE DEF m
<1> QED
  BY <1>1, <1>2, <1>3, BeginStep

LEMMA ConfirmReadStep ==
  ASSUME Serial, TypeOK, SerialInv, NEW s \in Sessions, ConfirmRead(s)
  PROVE  SerialInv'
<1> DEFINE m == [session[s] EXCEPT !.pc = "confirming", !.base = Now]
<1>1. /\ m \in Session /\ m.pc = "confirming" /\ m.base = Now /\ m.seen = session[s].seen
  BY NowType, ZenonT(40) DEF TypeOK, Session
<1>2. session' = [session EXCEPT ![s] = m] /\ UNCHANGED <<status, meta, page, document, jobs>>
  BY DEF ConfirmRead
<1>3. status # "confirmed"
  <2>1. status = "confirmed" => meta.snapshot \in Snapshot
    BY DEF SerialInv, ConfirmationIsFinal, TypeOK, Snapshot, Page
  <2>2. None \notin Snapshot
    OBVIOUS
  <2>3. status # "confirmed" \/ meta.snapshot = None
    BY DEF ConfirmRead
  <2> QED
    BY <2>1, <2>2, <2>3
<1>4. Idle(s) /\ session[s].seen.meta.version = meta.version
  BY DEF ConfirmRead
<1> HIDE DEF m
<1> QED
  BY <1>1, <1>2, <1>3, <1>4, BeginStep

LEMMA AnalyseReadStep ==
  ASSUME Serial, TypeOK, SerialInv, NEW s \in Sessions, AnalyseRead(s)
  PROVE  SerialInv'
<1> DEFINE had == document # None
           m == [session[s] EXCEPT !.pc = "analysing", !.base = Now, !.hadDocument = had]
<1>1. session' = [session EXCEPT ![s] = m] /\ UNCHANGED <<status, meta, page, document, jobs>>
  BY DEF AnalyseRead
<1>2. Idle(s) /\ status = "confirmed" /\ had \in BOOLEAN
  BY DEF AnalyseRead
<1> HIDE DEF had
<1>3. /\ m \in Session /\ m.pc = "analysing" /\ m.base = Now /\ m.seen = session[s].seen
      /\ m.hadDocument = had
  BY <1>2, NowType, ZenonT(40) DEF TypeOK, Session
<1> HIDE DEF m
<1> QED
  BY <1>1, <1>2, <1>3, BeginStep DEF had

-----------------------------------------------------------------------------
(* Requests commit.                                                        *)

\* The request under way is the only one.
LEMMA CommitIsAlone ==
  ASSUME TypeOK, SerialInv, NEW s \in Sessions, session[s].pc # "idle", Done(s)
  PROVE  /\ \A o \in Sessions : session'[o].pc = "idle" /\ session'[o].seen = session[o].seen
         /\ session[s].base = Now /\ FoundInv(s) /\ SeenInv(s)
<1>1. \A o \in Sessions \ {s} : session[o].pc = "idle" /\ session'[o] = session[o]
  BY DEF SerialInv, OneAtATime, Done, TypeOK
<1>2. session'[s].pc = "idle" /\ session'[s].seen = session[s].seen
  BY DEF Done, TypeOK
<1>3. session[s].base = Now /\ FoundInv(s) /\ SeenInv(s)
  BY DEF SerialInv, FoundInv
<1> QED
  BY <1>1, <1>2, <1>3

\* Afterwards no request is under way, and new versions are new to every user.
LEMMA CommitStep ==
  ASSUME TypeOK, TypeOK', SerialInv,
         \A o \in Sessions : session'[o].pc = "idle" /\ session'[o].seen = session[o].seen,
         UNCHANGED <<meta, page>> \/ meta'.version = meta.version + 1,
         \A p \in Pages : page'[p] = page[p] \/ page'[p].version = page[p].version + 1
  PROVE  OneAtATime' /\ \A o \in Sessions : FoundInv(o)' /\ SeenInv(o)'
<1>1. OneAtATime' /\ \A o \in Sessions : FoundInv(o)'
  BY DEF OneAtATime, FoundInv
<1>2. ASSUME NEW o \in Sessions
      PROVE  SeenInv(o)'
  <2>1. SeenInv(o) /\ session'[o].seen = session[o].seen /\ session[o].seen \in Copy \cup {None}
    BY DEF SerialInv, TypeOK, Session
  <2>2. meta.version \in Nat /\ \A p \in Pages : page[p].version \in Nat
    BY DEF TypeOK, Meta, Page
  <2>3. session[o].seen # None => /\ session[o].seen.meta.version \in Nat
                                 /\ \A p \in Pages : session[o].seen.page[p].version \in Nat
    BY <2>1 DEF Copy, Meta, Page
  <2> QED
    BY <2>1, <2>2, <2>3 DEF SeenInv
<1> QED
  BY <1>1, <1>2

LEMMA PatchWriteStep ==
  ASSUME TypeOK, TypeOK', SerialInv, NEW s \in Sessions, PatchWrite(s)
  PROVE  SerialInv'
<1> DEFINE p == session[s].page
           text == session[s].text
<1>1. session[s].pc = "patching" /\ Done(s) /\ UNCHANGED <<status, document, jobs>>
  BY DEF PatchWrite
<1>2. /\ \A o \in Sessions : session'[o].pc = "idle" /\ session'[o].seen = session[o].seen
      /\ session[s].base = Now /\ status # "confirmed"
  BY <1>1, CommitIsAlone DEF FoundInv
<1>3. PICK q \in Required, t \in Texts : q = session[s].page /\ t = session[s].text
  BY <1>1 DEF TypeOK
<1>4. /\ page' = [page EXCEPT ![q] = PageAfter(page[q], t)]
      /\ meta' = MetaAfterPatch(Now, q, t)
  BY <1>2, <1>3 DEF PatchWrite, Now
<1>5. /\ page'[q].version = page[q].version + 1
      /\ page'[q].status # "edited" => page'[q].text = Original
      /\ \A o \in Pages \ {q} : page'[o] = page[o]
  BY <1>4 DEF PageAfter, TypeOK
<1>6. /\ meta'.version = meta.version + 1 /\ meta'.snapVersion = meta.snapVersion
      /\ meta'.review = Summary(status, page') /\ meta'.canConfirm = CanConfirm(status, page')
  <2> DEFINE review == Summary(status, page')
             can == CanConfirm(status, page')
             version == meta.version + 1
  <2>1. meta' = [meta EXCEPT !.version = version, !.review = review, !.canConfirm = can]
    BY <1>4 DEF MetaAfterPatch, Now
  <2> HIDE DEF review, can, version
  <2>2. meta \in Meta
    BY DEF TypeOK
  <2> QED
    BY <2>1, <2>2 DEF Meta, review, can, version
<1>7. OneAtATime' /\ \A o \in Sessions : FoundInv(o)' /\ SeenInv(o)'
  BY <1>2, <1>5, <1>6, CommitStep
<1>8. OpenInv' /\ DocumentInv'
  BY <1>1, <1>2, <1>5, <1>6 DEF SerialInv, OpenInv, DocumentInv
<1>9. ConfirmationIsFinal' /\ SummaryMatchesPages' /\ AnalysedIsConfirmed'
  <2>1. SummaryMatchesPages'
    BY <1>1, <1>6 DEF SummaryMatchesPages
  <2> QED
    BY <1>1, <1>2, <2>1 DEF SerialInv, OpenInv, ConfirmationIsFinal, AnalysedIsConfirmed
<1> QED
  BY <1>7, <1>8, <1>9 DEF SerialInv

\* The confirmed text is the text of the pages.
LEMMA FinalTextIsText ==
  ASSUME SerialInv, status # "confirmed", NEW p \in Pages
  PROVE  FinalText(page[p]) = page[p].text
  BY DEF SerialInv, OpenInv, FinalText

LEMMA ConfirmWriteStep ==
  ASSUME TypeOK, TypeOK', SerialInv, NEW s \in Sessions, ConfirmWrite(s)
  PROVE  SerialInv'
<1>1. session[s].pc = "confirming" /\ Done(s) /\ UNCHANGED <<document, jobs>>
      /\ status' = "confirmed"
  BY DEF ConfirmWrite
<1>2. /\ \A o \in Sessions : session'[o].pc = "idle" /\ session'[o].seen = session[o].seen
      /\ session[s].base = Now /\ status # "confirmed"
  BY <1>1, CommitIsAlone DEF FoundInv
<1>3. /\ page' = [p \in Pages |-> [page[p] EXCEPT !.status = "confirmed",
                                                 !.version = page[p].version + 1]]
      /\ meta' = MetaAfterConfirm(Now)
  <2>1. Now.page = page
    BY DEF Now
  <2> QED
    BY <1>2, <2>1 DEF ConfirmWrite
<1>4. \A p \in Pages : page'[p].version = page[p].version + 1 /\ page'[p].text = page[p].text
  BY <1>3, ZenonT(40) DEF TypeOK, Page
<1>5. /\ meta'.version = meta.version + 1 /\ meta'.snapVersion = meta.snapVersion + 1
      /\ meta'.review = "confirmed"
      /\ meta'.snapshot = [p \in Pages |-> FinalText(page[p])]
  BY <1>3 DEF MetaAfterConfirm, Now
<1>6. OneAtATime' /\ \A o \in Sessions : FoundInv(o)' /\ SeenInv(o)'
  BY <1>2, <1>4, <1>5, CommitStep
<1>7. document = None /\ jobs = {} /\ meta.snapVersion = 0
  BY <1>2 DEF SerialInv, OpenInv
<1>8. ConfirmationIsFinal'
  <2>1. meta'.snapshot = [p \in Pages |-> page'[p].text]
    BY <1>2, <1>4, <1>5, FinalTextIsText
  <2> QED
    BY <1>5, <1>7, <2>1 DEF ConfirmationIsFinal
<1>9. OpenInv' /\ DocumentInv' /\ SummaryMatchesPages' /\ AnalysedIsConfirmed'
  BY <1>1, <1>7 DEF OpenInv, DocumentInv, SummaryMatchesPages, AnalysedIsConfirmed
<1> QED
  BY <1>6, <1>8, <1>9 DEF SerialInv

\* What a confirmation stores is what its user was shown.
LEMMA ConfirmsWhatIsShown ==
  ASSUME TypeOK, SerialInv, NEW s \in Sessions, ConfirmWrite(s), NEW p \in Pages
  PROVE  /\ meta'.snapshot[p] = FinalText(session[s].seen.page[p])
         /\ page'[p].text = page[p].text
<1>1. session[s].pc = "confirming" /\ Done(s)
  BY DEF ConfirmWrite
<1>2. session[s].base = Now /\ session[s].seen.meta.version = meta.version /\ SeenInv(s)
      /\ session[s].seen # None
  BY <1>1, CommitIsAlone DEF FoundInv, TypeOK
<1>3. session[s].seen.page = page
  BY <1>2 DEF SeenInv
<1>4. Now.page = page
  BY DEF Now
<1>5. meta'.snapshot = [q \in Pages |-> FinalText(page[q])]
  BY <1>2, <1>4 DEF ConfirmWrite, MetaAfterConfirm
<1>6. page'[p].text = page[p].text
  BY <1>2, <1>4 DEF ConfirmWrite, TypeOK, Page
<1> QED
  BY <1>3, <1>5, <1>6

\* What a patch replaces is what its user was shown.
LEMMA PatchesWhatIsShown ==
  ASSUME TypeOK, SerialInv, NEW s \in Sessions, PatchWrite(s), NEW p \in Pages,
         page'[p].text # page[p].text
  PROVE  session[s].seen.page[p].text = page[p].text
<1>1. session[s].pc = "patching" /\ Done(s)
  BY DEF PatchWrite
<1>2. /\ session[s].seen.page[session[s].page].version = page[session[s].page].version
      /\ SeenInv(s) /\ session[s].seen # None
  BY <1>1, CommitIsAlone DEF FoundInv, TypeOK
<1>3. p = session[s].page
  BY DEF PatchWrite, TypeOK
<1>4. session[s].seen.page[p] = page[p]
  BY <1>2, <1>3 DEF SeenInv
<1> QED
  BY <1>4

LEMMA AnalyseWriteStep ==
  ASSUME TypeOK, TypeOK', SerialInv, NEW s \in Sessions, AnalyseWrite(s)
  PROVE  SerialInv' /\ document' = meta.snapshot /\ session[s].base.meta.snapshot = meta.snapshot
<1>1. session[s].pc = "analysing" /\ Done(s) /\ UNCHANGED <<status, meta, page>>
  BY DEF AnalyseWrite
<1>2. /\ \A o \in Sessions : session'[o].pc = "idle" /\ session'[o].seen = session[o].seen
      /\ session[s].base = Now /\ status = "confirmed"
      /\ session[s].hadDocument = (document # None)
  BY <1>1, CommitIsAlone DEF FoundInv
<1>3. Now.meta = meta
  BY DEF Now
<1>4. document' = meta.snapshot
      /\ jobs' = jobs \cup {[revision |-> meta.snapVersion, text |-> meta.snapshot]}
  BY <1>2, <1>3 DEF AnalyseWrite, SerialInv, DocumentInv
<1>5. OneAtATime' /\ \A o \in Sessions : FoundInv(o)' /\ SeenInv(o)'
  BY <1>1, <1>2, CommitStep
<1>6. OpenInv' /\ DocumentInv' /\ AnalysedIsConfirmed'
  BY <1>1, <1>2, <1>4 DEF SerialInv, OpenInv, DocumentInv, AnalysedIsConfirmed
<1>7. ConfirmationIsFinal' /\ SummaryMatchesPages'
  BY <1>1, <1>2 DEF SerialInv, ConfirmationIsFinal, SummaryMatchesPages
<1> QED
  BY <1>2, <1>3, <1>4, <1>5, <1>6, <1>7 DEF SerialInv

-----------------------------------------------------------------------------
(* The theorems.                                                           *)

LEMMA InitSerial == Init => SerialInv
<1> SUFFICES ASSUME Init PROVE SerialInv
  OBVIOUS
<1>1. \A s \in Sessions : session[s].pc = "idle" /\ session[s].seen = None
  BY DEF Init
<1>2. OneAtATime /\ \A s \in Sessions : FoundInv(s) /\ SeenInv(s)
  BY <1>1 DEF OneAtATime, FoundInv, SeenInv
<1>3. OpenInv /\ DocumentInv /\ ConfirmationIsFinal /\ AnalysedIsConfirmed
  BY DEF Init, OpenInv, DocumentInv, ConfirmationIsFinal, AnalysedIsConfirmed
<1>4. SummaryMatchesPages
  <2> SUFFICES ASSUME Required # {}
               PROVE  meta.review = Summary(status, page) /\ meta.canConfirm = CanConfirm(status, page)
    BY DEF SummaryMatchesPages
  <2>1. \A p \in Required : page[p].status = "pending"
    BY DEF Init
  <2>2. Reviewed(page) = {}
    BY <2>1 DEF Reviewed
  <2> QED
    BY <2>2 DEF Init, Summary, CanConfirm
<1> QED
  BY <1>2, <1>3, <1>4 DEF SerialInv

LEMMA StutterStep == TypeOK /\ SerialInv /\ UNCHANGED vars => SerialInv'
<1> SUFFICES ASSUME TypeOK, SerialInv, UNCHANGED vars PROVE SerialInv'
  OBVIOUS
<1>1. UNCHANGED <<status, meta, page, document, jobs, session>> /\ Now' = Now
  BY DEF vars, Now
<1>2. \A s \in Sessions : FoundInv(s)' /\ SeenInv(s)'
  BY <1>1 DEF SerialInv, FoundInv, SeenInv
<1>3. OneAtATime' /\ OpenInv' /\ DocumentInv' /\ ConfirmationIsFinal' /\ AnalysedIsConfirmed'
  BY <1>1 DEF SerialInv, OneAtATime, OpenInv, DocumentInv, ConfirmationIsFinal, AnalysedIsConfirmed
<1>4. SummaryMatchesPages'
  BY <1>1 DEF SerialInv, SummaryMatchesPages, Summary, CanConfirm, Reviewed
<1> QED
  BY <1>2, <1>3, <1>4 DEF SerialInv

LEMMA SerialStep == Serial /\ TypeOK /\ TypeOK' /\ SerialInv /\ [Next]_vars => SerialInv'
  BY OpenStep, PatchReadStep, PatchWriteStep, ConfirmReadStep, ConfirmWriteStep, AnalyseReadStep,
     AnalyseWriteStep, StutterStep DEF Next

\* When requests do not overlap, the copy a request works on is what is stored when
\* it commits, and a version a user was shown identifies the texts they were shown.
THEOREM SerialInvariant == Serial => (Spec => []SerialInv)
<1> SUFFICES ASSUME Serial PROVE Spec => []SerialInv
  OBVIOUS
<1>1. TypeOK /\ TypeOK' /\ SerialInv /\ [Next]_vars => SerialInv'
  BY SerialStep
<1> QED
  BY <1>1, InitSerial, ReviewTypeCorrect, PTL DEF Spec

\* A confirmed extraction keeps its one snapshot, the text of its pages
\* (confirm_extraction).
THEOREM SerialConfirmationIsFinal == Serial => (Spec => []ConfirmationIsFinal)
<1>1. SerialInv => ConfirmationIsFinal
  BY DEF SerialInv
<1> QED
  BY <1>1, SerialInvariant, PTL

\* The stored review summary is the one the pages give (_build_review_summary).
THEOREM SerialSummaryMatches == Serial => (Spec => []SummaryMatchesPages)
<1>1. SerialInv => SummaryMatchesPages
  BY DEF SerialInv
<1> QED
  BY <1>1, SerialInvariant, PTL

\* Every analysis is of the confirmed text (_load_or_create_analysis_document).
THEOREM SerialAnalysedIsConfirmed == Serial => (Spec => []AnalysedIsConfirmed)
<1>1. SerialInv => AnalysedIsConfirmed
  BY DEF SerialInv
<1> QED
  BY <1>1, SerialInvariant, PTL

\* A confirmation confirms what its user was shown, however old the view: If-Match
\* suffices (confirm_extraction).
THEOREM SerialConfirmedIsSeen == Serial => (Spec => ConfirmedIsSeen)
<1> SUFFICES ASSUME Serial PROVE Spec => ConfirmedIsSeen
  OBVIOUS
<1> DEFINE A == \A s \in Sessions : ConfirmWrite(s) =>
                  \A p \in Pages : meta'.snapshot[p] = FinalText(session[s].seen.page[p])
<1>1. TypeOK /\ SerialInv /\ [Next]_vars => [A]_vars
  BY ConfirmsWhatIsShown
<1> QED
  BY <1>1, SerialInvariant, ReviewTypeCorrect, PTL DEF Spec, ConfirmedIsSeen

\* No edit is lost to a writer that was not shown it (patch_extraction_page_review).
THEOREM SerialEditIsKept == Serial => (Spec => EditIsKept)
<1> SUFFICES ASSUME Serial PROVE Spec => EditIsKept
  OBVIOUS
<1> DEFINE A == \A p \in Pages : page'[p].text # page[p].text =>
                  \E s \in Sessions : PatchWrite(s) /\ session[s].seen.page[p].text = page[p].text
<1>1. TypeOK /\ SerialInv /\ [Next]_vars => A
  <2> SUFFICES ASSUME TypeOK, SerialInv, [Next]_vars, NEW p \in Pages,
                      page'[p].text # page[p].text
               PROVE  \E s \in Sessions : PatchWrite(s)
                                          /\ session[s].seen.page[p].text = page[p].text
    OBVIOUS
  <2>1. page' # page
    OBVIOUS
  <2>2. PICK s \in Sessions : PatchWrite(s) \/ ConfirmWrite(s)
    BY <2>1 DEF Next, vars, Open, PatchRead, ConfirmRead, AnalyseRead, AnalyseWrite
  <2>3. PatchWrite(s)
    BY <2>2, ConfirmsWhatIsShown
  <2> QED
    BY <2>3, PatchesWhatIsShown
<1> QED
  BY <1>1, SerialInvariant, ReviewTypeCorrect, PTL DEF Spec, EditIsKept

\* An accepted request analyses the snapshot it was checked against
\* (_load_or_create_analysis_document).
THEOREM SerialAnalysesWhatWasValidated == Serial => (Spec => AnalysesWhatWasValidated)
<1> SUFFICES ASSUME Serial PROVE Spec => AnalysesWhatWasValidated
  OBVIOUS
<1> DEFINE A == \A s \in Sessions :
                  AnalyseWrite(s) /\ (session[s].hadDocument \/ document = None)
                    => document' = session[s].base.meta.snapshot
<1>1. TypeOK /\ TypeOK' /\ SerialInv /\ [Next]_vars => [A]_vars
  BY AnalyseWriteStep
<1> QED
  BY <1>1, SerialInvariant, ReviewTypeCorrect, PTL DEF Spec, AnalysesWhatWasValidated

=============================================================================
