------------------------------ MODULE Locales -------------------------------
(***************************************************************************)
(* Which language an answer, a page or a text is in (packages/i18n,        *)
(* apps/api/src/i18n/locale.ts, web-shell/src/stores/shellStore.ts).       *)
(*                                                                         *)
(* A language tag is told apart by the family it normalizes to: "en",      *)
(* "zh", the wildcard, or one that is not supported.  A quality is a tenth,*)
(* or NoQuality where the text is no number between 0 and 1.               *)
(***************************************************************************)
EXTENDS Integers, Sequences, FiniteSets

Tags == {"en", "zh", "*", "unsupported"}
Supported == {"en-US", "zh-CN"}
Default == "en-US"
NoLocale == "none"
NoQuality == -1
Qualities == {NoQuality} \cup 0..10

\* normalizeLocale
NormalizedLocale(tag) ==
  CASE tag = "en" -> "en-US"
    [] tag = "zh" -> "zh-CN"
    [] OTHER -> NoLocale
-----------------------------------------------------------------------------
(* The API: Accept-Language. *)

AcceptedPart(part) ==
  [locale |-> IF part.tag = "*" THEN Default ELSE NormalizedLocale(part.tag),
   quality |-> IF part.quality = NoQuality THEN 0 ELSE part.quality]

\* The parts that count: of a supported language, with a quality above zero.
Acceptable(header) ==
  {i \in DOMAIN header : LET p == AcceptedPart(header[i]) IN p.locale # NoLocale /\ p.quality > 0}

\* The order of the sort: by quality, then by place.
Precedes(header, i, j) ==
  LET q == [k \in DOMAIN header |-> AcceptedPart(header[k]).quality]
  IN  q[i] > q[j] \/ (q[i] = q[j] /\ i <= j)

\* negotiateLocale
NegotiatedLocale(header) ==
  IF Acceptable(header) = {} THEN Default
  ELSE AcceptedPart(header[CHOOSE i \in Acceptable(header) :
         \A j \in Acceptable(header) : Precedes(header, i, j)]).locale

\* setLanguageHeaders: what the answer varies with, in addition.
VaryWith(values) == values \cup {"Accept-Language"}

\* problemDetail: a text in the language, the one the code gives, or that of the status.
ProblemDetail(texts, locale, code, given) ==
  IF code \in texts[locale] THEN "translated" ELSE IF given THEN "given" ELSE "generic"

\* problemTitle, by class of the status.
ProblemTitle(status) ==
  CASE status \in {400, 401, 403, 404, 409, 429} -> "of the status"
    [] status >= 500 -> "internal"
    [] OTHER -> "failed"
-----------------------------------------------------------------------------
(* Pages: the preference kept, or asked for, and the languages of the browser. *)

\* parseLocalePreference
ParsedPreference(kept) == IF kept = "system" THEN "system" ELSE NormalizedLocale(kept)

\* readLocalePreference: storage may be denied.
KeptPreference(kept, denied) ==
  IF denied \/ ParsedPreference(kept) = NoLocale THEN "system" ELSE ParsedPreference(kept)

\* resolveLocale: the first supported language.
ResolvedLocale(preference, languages) ==
  LET known == {i \in DOMAIN languages : NormalizedLocale(languages[i]) # NoLocale}
  IN  IF preference # "system" THEN preference
      ELSE IF known = {} THEN Default
      ELSE NormalizedLocale(languages[CHOOSE i \in known : \A j \in known : i <= j])

\* createLocaleSnapshot
LocaleSnapshot(preference, languages) ==
  LET locale == ResolvedLocale(preference, languages)
  IN  [locale |-> locale, fallbacks |-> IF locale = Default THEN <<>> ELSE <<Default>>]

\* resolveInitialShellLocale: a locale in the address goes first.
InitialShellLocale(asked, kept, denied, languages) ==
  LET preference == IF asked \in Supported THEN asked ELSE KeptPreference(kept, denied)
  IN  [preference |-> preference, snapshot |-> LocaleSnapshot(preference, languages)]
-----------------------------------------------------------------------------
(* Texts of an application in several languages. *)

Source == "source"

\* resolveLocalizedContent: for each field of the content, whose text it is.
LocalizedContent(fields, localizations, locale, fallbacks) ==
  LET order == <<locale>> \o fallbacks
      has(i, field) == field \in localizations[order[i]]
      givers(field) == {i \in DOMAIN order : has(i, field)}
  IN  [field \in fields |->
         IF givers(field) = {} THEN Source
         ELSE order[CHOOSE i \in givers(field) : \A j \in givers(field) : i <= j]]
\* localizeCatalog: an application's own default language goes before that of the shell.
LocalizedEntry(fields, localizations, default, snapshot) ==
  LocalizedContent(fields, localizations, snapshot.locale, <<default>> \o snapshot.fallbacks)
-----------------------------------------------------------------------------
(* Properties *)

\* An answer is in a language that the client accepts as much as any other, unless it
\* accepts none that the server speaks: then it is in the default one (negotiateLocale).
AnswersInTheBestLanguage(headers) ==
  \A header \in headers :
    LET parts == {AcceptedPart(header[i]) : i \in Acceptable(header)}
        locale == NegotiatedLocale(header)
    IN  \/ parts = {} /\ locale = Default
        \/ \E p \in parts : p.locale = locale /\ \A q \in parts : q.quality <= p.quality

\* A page starts in the language it is asked for, else in the one kept, else in one that
\* the browser prefers, whatever is stored; a text it has no translation for is in the
\* default language, and one without that as the publisher wrote it.
PagesStartInTheirLanguage(languages, asked) ==
  \A l \in languages, a \in asked, kept \in Tags \cup {"system"}, denied \in BOOLEAN :
    LET start == InitialShellLocale(a, kept, denied, l)
    IN  /\ start.snapshot.locale \in Supported
        /\ a \in Supported => start.snapshot.locale = a
        /\ start.preference = "system" /\ start.snapshot.locale # Default =>
             \E i \in DOMAIN l : NormalizedLocale(l[i]) = start.snapshot.locale
                                 /\ \A j \in 1..(i - 1) : NormalizedLocale(l[j]) # Default

\* Texts are never mixed against the order: what the language of the page has comes from
\* it, and the publisher's text is used only where no language in question has one.
TextsFollowTheOrder(fields) ==
  \A localizations \in [Supported -> SUBSET fields], locale, default \in Supported :
    LET content == LocalizedEntry(fields, localizations, default, LocaleSnapshot(locale, <<>>))
    IN  \A field \in fields :
          /\ content[field] # Source => field \in localizations[content[field]]
          /\ field \in localizations[locale] => content[field] = locale
          /\ field \in localizations[default] => content[field] \in {locale, default}
          /\ content[field] = Source =>
               \A l \in {locale, default, Default} : field \notin localizations[l]
=============================================================================
