----------------------------- MODULE EpicPackage -----------------------------
(***************************************************************************)
(* The two files that make a directory an Epic package: SKILL.md with its  *)
(* canonical footer and EPIC.md with its spec_version                      *)
(* (internal/epic/skill_footer.go, Validate of internal/epic/epic.go, and  *)
(* runInit and runUpgradeSkillFooter of internal/cli/app.go).  Of the      *)
(* other files, the live state, only the errors matter that they raise.    *)
(* SKILL.md can be read if it is there.                                    *)
(*                                                                         *)
(* A SKILL.md is a sequence of lines, of which only the kind matters:      *)
(*   "front"     a complete front matter, with a name and a description    *)
(*   "text"      a line of the author                                      *)
(*   "blank"     an empty line                                             *)
(*   "heading"   the line "## Agent Epics"                                 *)
(*   "deep"      a line that only holds those words: "### Agent Epics"     *)
(*   "marker"    the comment that marks the current footer                 *)
(*   "stale"     a comment that marks another footer                       *)
(*   "headmark"  the heading and the current marker on one line            *)
(*   "textmark"  the author's words and the current marker on one line     *)
(*   "body"      the text of the canonical footer                          *)
(***************************************************************************)
EXTENDS Naturals, Sequences, SequencesExt

CONSTANT MaxLines   \* bound: lines of a SKILL.md that the author has written

VARIABLES
    skill,      \* the lines of SKILL.md
    spec,       \* EPIC.md: its spec_version, "plain" without one, "empty",
                \* "unreadable" or "none"
    legacy,     \* whether plans, log or state.json are in the package's root
    todo,       \* files that a running `epics init` has not come to
    was,        \* SKILL.md before the last command that wrote it
    last        \* what that was: "author", "init", "upgrade" or "cut"

vars == <<skill, spec, legacy, todo, was, last>>

Lines == {"front", "text", "blank", "heading", "deep", "marker", "stale",
          "headmark", "textmark", "body"}
NoFile    == <<"no file">>
Canonical == <<"heading", "marker", "body">>
Template  == <<"front", "blank", "text">>

TrimRight(s) == SubSeq(s, 1, SelectLastInSeq(s, LAMBDA t : t # "blank"))
HasMarker(t) == t \in {"marker", "headmark", "textmark"}
IsHeading(t) == t = "heading"
footerHeadingIndex(s) == SelectInSeq(s, IsHeading)

-----------------------------------------------------------------------------
(* The footer *)

\* What is left of a line when the marker and all after it are cut off.
BeforeMarker(t) ==
    CASE t = "headmark" -> <<"heading">>
      [] t = "textmark" -> <<"text">>
      [] OTHER          -> <<>>

\* Mutant: a footer without its heading is not looked for.
StripAtHeading(s) ==
    LET heading == footerHeadingIndex(s)
    IN  TrimRight(IF heading > 0 THEN SubSeq(s, 1, heading - 1) ELSE s)

\* Everything from the heading before the marker on; without such a heading
\* from the marker, without a marker from the heading.
stripSkillFooter(s) ==
    LET marker  == SelectInSeq(s, HasMarker)
        upTo    == IF marker > 0 THEN SubSeq(s, 1, marker - 1) \o BeforeMarker(s[marker])
                                 ELSE s
        heading == footerHeadingIndex(upTo)
    IN  TrimRight(IF heading > 0 THEN SubSeq(upTo, 1, heading - 1) ELSE upTo)

RefreshSkillFooter(s) ==
    LET base == stripSkillFooter(TrimRight(s))
    IN  IF base = <<>> THEN Canonical ELSE base \o <<"blank">> \o Canonical

skillFooterMatchesCanonical(s) ==
    LET heading == footerHeadingIndex(s)
    IN  heading > 0 /\ TrimRight(SubSeq(s, heading, Len(s))) = Canonical

-----------------------------------------------------------------------------
(* epics validate: the diagnostics that are errors *)

Holds(s, kinds) == \E i \in DOMAIN s : s[i] \in kinds
Marked(s)       == \E i \in DOMAIN s : HasMarker(s[i])
Titled(s)       == Holds(s, {"heading", "headmark", "deep"})
When(cond, code) == IF cond THEN {code} ELSE {}

\* parseFrontmatter finds a closed block at the very start.
HasFrontmatter(s) == s # <<>> /\ s[1] = "front"

\* validateMarkdown, and for spec_version 0.5.2 the rest of validateSkillMarkdown.
SkillErrors(s) ==
    When(TrimRight(s) = <<>>, "empty_skill") \cup
    IF spec # "0.5.2" THEN {} ELSE
        When(~HasFrontmatter(s), "missing_skill_frontmatter") \cup
        When(~Titled(s), "missing_agent_epics_heading") \cup
        When(~Marked(s) /\ Holds(s, {"stale"}), "stale_agent_epics_footer") \cup
        When(~Marked(s) /\ ~Holds(s, {"stale"}), "missing_agent_epics_footer") \cup
        When(Marked(s) /\ Titled(s) /\ ~skillFooterMatchesCanonical(s),
             "stale_agent_epics_footer_body")

UsesRuntimeLayout == spec \in {"0.5.1", "0.5.2"}
validateRuntimeLayout == When(UsesRuntimeLayout /\ legacy, "legacy_live_state_path")

\* What validateJSONFile may return of state.json and state/core.json, and
\* validateDirectory of plans and log.
LiveErrors == {"read_error_json", "invalid_json", "stat_error", "not_directory"}

\* live: the errors that the live state raises in the layout of EPIC.md
Validate(live) ==
    (IF skill = NoFile THEN {"missing_skill_md"} ELSE SkillErrors(skill)) \cup
    When(spec = "none", "missing_epic_md") \cup
    When(spec = "empty", "empty_epic") \cup
    When(spec = "unreadable", "read_error_epic") \cup
    live \cup
    validateRuntimeLayout

-----------------------------------------------------------------------------
(* epics init *)

Init ==
    /\ skill \in {NoFile} \cup BoundedSeq(Lines, MaxLines)
    /\ spec \in {"none", "empty", "unreadable", "plain", "0.5.1", "0.5.2"}
    /\ legacy \in BOOLEAN
    /\ todo = {}
    /\ was = skill
    /\ last = "author"

BeginInit ==
    /\ todo = {}
    /\ todo' = {"SKILL.md", "EPIC.md"}
    /\ UNCHANGED <<skill, spec, legacy, was, last>>

\* The files come in any order (a map); one that exists is passed over.  The
\* call ends when a write fails, or the process does: the file stays empty.
InitSkill ==
    /\ "SKILL.md" \in todo
    /\ \/ skill # NoFile
          /\ todo' = todo \ {"SKILL.md"}
          /\ UNCHANGED <<skill, was, last>>
       \/ skill = NoFile
          /\ skill' = RefreshSkillFooter(Template)
          /\ todo' = todo \ {"SKILL.md"}
          /\ was' = skill /\ last' = "init"
       \/ skill = NoFile
          /\ skill' = <<>>
          /\ todo' = {}
          /\ was' = skill /\ last' = "cut"
    /\ UNCHANGED <<spec, legacy>>

InitEpic ==
    /\ "EPIC.md" \in todo
    /\ \/ spec # "none" /\ todo' = todo \ {"EPIC.md"} /\ UNCHANGED spec
       \/ spec = "none" /\ todo' = todo \ {"EPIC.md"} /\ spec' = "0.5.2"
       \/ spec = "none" /\ todo' = {} /\ spec' = "empty"
    /\ UNCHANGED <<skill, legacy, was, last>>

-----------------------------------------------------------------------------
(* epics upgrade-skill-footer *)

\* os.WriteFile truncates the file before it writes; it is not called when
\* nothing changes.
UpgradeSkillFooter ==
    /\ skill # NoFile
    /\ \/ skill' = RefreshSkillFooter(skill) /\ last' = "upgrade"
       \/ skill # RefreshSkillFooter(skill) /\ skill' = <<>> /\ last' = "cut"
    /\ was' = skill
    /\ UNCHANGED <<spec, legacy, todo>>

\* Other commands put plans, logs and state where the layout says.
WriteLegacy ==
    /\ ~UsesRuntimeLayout
    /\ legacy' = TRUE
    /\ UNCHANGED <<skill, spec, todo, was, last>>

Next == BeginInit \/ InitSkill \/ InitEpic \/ UpgradeSkillFooter \/ WriteLegacy
Spec == Init /\ [][Next]_vars

-----------------------------------------------------------------------------
(* Properties *)

\* What belongs to the author: all before the first line that is the heading
\* or holds the marker.
AuthorPart(s) ==
    LET footer == SelectInSeq(s, LAMBDA t : IsHeading(t) \/ HasMarker(t))
    IN  TrimRight(IF footer = 0 THEN s
                  ELSE SubSeq(s, 1, footer - 1)
                       \o (IF s[footer] = "textmark" THEN <<"text">> ELSE <<>>))

\* What `epics validate` tells an author to run heals every SKILL.md: after
\* `epics upgrade-skill-footer` the footer raises no error, whatever stale,
\* doubled or broken footer was there, all that stood before it is kept, nothing
\* of it is left, and another refresh changes nothing.  In a package that init has
\* made, or one with a complete front matter that was upgraded, no error of
\* `epics validate` is about SKILL.md: what is left is about EPIC.md, the layout or
\* the live state (RefreshSkillFooter, stripSkillFooter, Validate, runInit).
UpgradeHeals ==
    /\ last = "upgrade" =>
         /\ SkillErrors(skill) \subseteq {"missing_skill_frontmatter"}
         /\ skill \in {Canonical, AuthorPart(was) \o <<"blank">> \o Canonical}
         /\ RefreshSkillFooter(skill) = skill
    /\ (last = "init" \/ (last = "upgrade" /\ Head(skill) = "front")) =>
         \A live \in SUBSET LiveErrors :
            Validate(live) \subseteq {"missing_epic_md", "empty_epic", "read_error_epic",
                                     "legacy_live_state_path"} \cup live
=============================================================================
