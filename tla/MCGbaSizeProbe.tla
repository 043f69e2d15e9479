---------------------------- MODULE MCGbaSizeProbe ----------------------------
(* ROMs of every size, that float or wrap, and the ways to look like the end  *)
(* of one: at every place the probe looks at beyond a size it tries.          *)
EXTENDS GbaSizeProbe

Sizes == {2 ^ n : n \in 19 .. 25}
Plain(s, w) ==
  [size |-> s, wraps |-> w, blank |-> {}, own |-> {}, live |-> {}, again |-> <<2 ^ 25, 2 ^ 25>>,
   decays |-> "never"]
Plains == {Plain(s, w) : s \in Sizes, w \in BOOLEAN}

\* The sizes tried below s, and a run at each place beyond them: three of the
\* halfwords looked at there, or all four.
Tried(s) == {MiB * 2 ^ c : c \in 0 .. NCAND - 1} \cap 1 .. s - 1
Runs(s) ==
  {<<t + PT_OFF[p], t + PT_OFF[p] + n>> : t \in Tried(s), p \in DOMAIN PT_OFF, n \in {\h42, \h404}}
Spans(s) == {{<<0, s>>}, {<<s \div 2, s>>}, {<<2 ^ 18, s>>}, {<<0, \hA0>>, <<\hC0, s>>}}

\* Parts that are blank or hold their own addresses.
Marked ==
  UNION {UNION {{[c EXCEPT !.blank = x], [c EXCEPT !.own = x]} :
                  x \in Spans(c.size) \cup {{r} : r \in Runs(c.size)}} : c \in Plains}

Repeating ==
  UNION {{[c EXCEPT !.again = x] :
            x \in {<<c.size \div 2, c.size \div 2>>, <<c.size \div 4, c.size \div 4>>,
                   <<4096, \hB00>>, <<4096, \h404>>}} : c \in Plains}

\* One address alive beyond the end.
Alive ==
  {[Plain(s, FALSE) EXCEPT !.live = {s + PT_OFF[p] + word_stride[k]}] :
     s \in Sizes, p \in DOMAIN PT_OFF, k \in DOMAIN word_stride}

Decaying == {[Plain(s, FALSE) EXCEPT !.decays = d] : s \in Sizes \cup {0}, d \in {"first", "second"}}

MCCartridges == Plains \cup Marked \cup Repeating \cup Alive \cup Decaying \cup {Plain(0, FALSE)}
MCSuccessors == {Plain(MiB, FALSE), Plain(0, FALSE)}
=============================================================================
