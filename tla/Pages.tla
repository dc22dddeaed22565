--------------------------------- MODULE Pages ---------------------------------
(***************************************************************************)
(* The forms, the timeline, the lists and the search, as parts of the client that *)
(* are on the screen one at a time, beside the import.                        *)
(***************************************************************************)
EXTENDS ImportWizard, Screen

CONSTANTS
  TapsOf,                            \* bound: what the users do, in each part
  FormWords, EmptyWord,              \* forms
  Texts, First, MaxMounts,           \* an entry of the timeline
  Notes, Kinds, NewKind,             \* its composer
  NumRows, Named, PageSize,          \* lists
  SearchWords, Short, Before, After  \* the search

AtForm == INSTANCE Forms WITH
  Words <- FormWords, Blank <- EmptyWord, MaxTaps <- TapsOf.form, form <- s1, open <- s2, draft <- s3, seed <- s4,
  seen <- s5, server <- s6, flights <- s7, opening <- s8, made <- s9, drafts <- s10, typed <- s11, stored <- s12,
  others <- s13, calm <- s14, lost <- s15
AtEntry == INSTANCE EntryRow WITH
  MaxKeys <- TapsOf.entry, server <- s1,
  cached <- s2, refetch <- s3, mounted <- s4, mounts <- s5, text <- s6, savedBody <- s7, pending <- s8, patches <- s9,
  typed <- s10, smooth <- s11, lone <- s12, keys <- taps
AtDraft == INSTANCE TimelineDraft WITH
  MaxTaps <- TapsOf.draft, open <- s1, note <- s2, kind <- s3,
  picker <- s4, making <- s5, commits <- s6, locked <- s7, stored <- s8, typed <- s9, drafts <- s10, patient <- s11,
  lost <- s12
AtList == INSTANCE Lists WITH
  MaxTaps <- TapsOf.list, list <- s1, word <- s2, quiet <- s3, address <- s4,
  narrow <- s5, page <- s6, there <- s7, fit <- s8, seen <- s9, ticked <- s10, meant <- s11, dialog <- s12,
  flight <- s13, left <- s14, shrunk <- s15, hasty <- s16, undone <- s17
AtSearch == INSTANCE Search WITH
  Words <- SearchWords, MaxTaps <- TapsOf.search, phone <- s1, term <- s2, quiet <- s3,
  found <- s4, cache <- s5, fetching <- s6, shown <- s7, last <- s8, focused <- s9, mobileOpen <- s10,
  active <- s11, pointed <- s12, opened <- s13

ASSUME PagesAssumption ==
  /\ AtForm!FormsAssumption
  /\ AtEntry!EntryAssumption
  /\ AtDraft!DraftAssumption
  /\ AtList!ListsAssumption
  /\ AtSearch!SearchAssumption
=============================================================================
