------------------------------ MODULE Matching -----------------------------
(***************************************************************************)
(* Matching a failure told in prose against the graph                      *)
(* (packages/core/src/rca/textmode.ts) and the configuration of the        *)
(* scoring (config/scoring-config.ts).                                     *)
(*                                                                         *)
(* Words are numbers, those of symbols among them: g.length[w], the word   *)
(* g.lower[w] in lower case, the words g.pieces[w] it is put together      *)
(* from, g.stop the stop words.  g.within[s] tells which lower-case words  *)
(* the name, the signature and the body of symbol s contain, and           *)
(* g.locals[f] the names that file f imports.  A text is a sequence of     *)
(* [word, quoted].                                                         *)
(***************************************************************************)
EXTENDS Scoping

\* The parts of the configuration that are used; weights are in tenths.
DEFAULT_SCORING_CONFIG ==
  [matcher   |-> [name_match_weight |-> 30, subname_match_weight |-> 10,
                  signature_match_weight |-> 20, body_content_weight |-> 3,
                  import_match_weight |-> 5, subwords_per_token_ceiling |-> 3,
                  substring_name_min_length |-> 4, substring_name_min_symbol_length |-> 5,
                  substring_name_per_token_cap |-> 100, signature_substring_min_length |-> 5,
                  body_content_min_length |-> 8],
   augmenter |-> [matcher_tail_topn_multiplier |-> 5, matcher_tail_floor |-> 25],
   retrieval |-> [default_max_files |-> 200, default_top_n |-> 5, free_text_seed_cap |-> 8,
                  cochange_seed_topn |-> 8, cochange_lookback_days |-> 365,
                  cochange_min_cooccurrences |-> 2]]

\* What a file says of a section replaces the defaults, knob by knob.
mergeWithDefaults(partial) ==
  [x \in DOMAIN DEFAULT_SCORING_CONFIG |->
     IF x \in DOMAIN partial THEN partial[x] @@ DEFAULT_SCORING_CONFIG[x]
     ELSE DEFAULT_SCORING_CONFIG[x]]

\* A file that cannot be read or parsed is as good as none: r.config is empty.
getScoringConfig(r) == mergeWithDefaults(r.config)
-----------------------------------------------------------------------------
Telling(g, w) == g.length[w] >= 3 /\ g.lower[w] \notin g.stop

tokenizeFailure(g, text) ==
  LET Words(quoted) == [i \in DOMAIN SelectSeq(text, LAMBDA x : x.quoted = quoted) |->
                          SelectSeq(text, LAMBDA x : x.quoted = quoted)[i].word]
  IN [identifierTokens |-> Distinct(SelectSeq(Words(FALSE), LAMBDA w : Telling(g, w))),
      literalTokens |-> Distinct(SelectSeq(Words(TRUE), LAMBDA w : g.length[w] >= 2))]

splitCompound(g, w) == {p \in {g.lower[x] : x \in ToSet(g.pieces[w])} : Telling(g, p)}

\* A token and its parts as they are looked for, no shorter than min.
Forms(g, w, min) == {p \in splitCompound(g, w) \cup {g.lower[w]} : g.length[p] >= min}

\* The longest names that contain the word, as many as one query returns.
SubnameRows(g, cfg, w) ==
  LET rows == {s \in g.symbols : /\ w \in g.within[s].name
                                 /\ g.length[g.name[s]] >= cfg.substring_name_min_symbol_length}
      Longer(s) == {t \in rows : \/ g.length[g.name[t]] > g.length[g.name[s]]
                                 \/ g.length[g.name[t]] = g.length[g.name[s]] /\ t < s}
  IN {s \in rows : Cardinality(Longer(s)) < cfg.substring_name_per_token_cap}

Declared == {"function", "method", "class", "const", "interface", "type", "enum"}

\* Each kind of hit counts a token once for a symbol.
Hits(g, cfg, tokens, s) ==
  LET idents == ToSet(tokens.identifierTokens)
      parts  == UNION {Forms(g, w, cfg.substring_name_min_length) : w \in idents}
  IN [name    |-> {w \in idents : w = g.name[s]},
      subname |-> {p \in parts : s \in SubnameRows(g, cfg, p)},
      body    |-> {w \in idents : Forms(g, w, cfg.signature_substring_min_length)
                                    \cap g.within[s].signature # {}}
                  \cup {l \in ToSet(tokens.literalTokens) : g.lower[l] \in g.within[s].signature},
      content |-> {w \in idents : Forms(g, w, cfg.body_content_min_length) \cap g.within[s].body # {}},
      import  |-> IF g.kind[s] \in Declared THEN idents \cap g.locals[g.file[s]] ELSE {}]

\* Symbols with a hit, with the share of the most that the tokens could score,
\* in millionths.
matchTokensAgainstKg(g, cfg, tokens) ==
  LET n    == Len(tokens.identifierTokens)
      most == n * (cfg.name_match_weight + cfg.signature_match_weight + cfg.body_content_weight
                   + cfg.import_match_weight
                   + cfg.subname_match_weight * cfg.subwords_per_token_ceiling)
              + Len(tokens.literalTokens) * cfg.signature_match_weight
      Raw(s) == LET h == Hits(g, cfg, tokens, s) IN
                cfg.name_match_weight * Cardinality(h.name)
                + cfg.subname_match_weight * Cardinality(h.subname)
                + cfg.signature_match_weight * Cardinality(h.body)
                + cfg.body_content_weight * Cardinality(h.content)
                + cfg.import_match_weight * Cardinality(h.import)
      all == Ordered(g.symbols)
      rated == [i \in DOMAIN all |-> [symbol |-> all[i], key |-> Key(g, all[i]),
                                      total |-> (Raw(all[i]) * 1000000) \div most]]
  IN Sorted(SelectSeq(rated, LAMBDA m : m.total > 0),
            LAMBDA a, b : \/ a.total > b.total
                          \/ a.total = b.total /\ \/ a.key[2] < b.key[2]
                                                  \/ a.key[2] = b.key[2] /\ a.key[1] < b.key[1])
=============================================================================
