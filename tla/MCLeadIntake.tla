---------------------------- MODULE MCLeadIntake ----------------------------
(* Instances of LeadIntake for TLC. *)
EXTENDS LeadIntake, TLC

Says(site, sender, body, form, spam, mayRetro) ==
    [site |-> site, sender |-> sender, body |-> body, form |-> form, spam |-> spam,
     mayRetro |-> mayRetro]

\* One pitch: a sender on two sites, once flagged as composed without proof, and
\* another sender whose text the content scan knows.  And a newsletter signup.
FourLeads == [l \in {"pitch1", "pitch2", "known", "signup"} |->
    CASE l = "pitch1" -> Says("s1", "bot1", "b", "contact", FALSE, TRUE)
      [] l = "pitch2" -> Says("s2", "bot1", "b", "contact", FALSE, FALSE)
      [] l = "known" -> Says("s1", "bot2", "b", "contact", TRUE, TRUE)
      [] l = "signup" -> Says("s1", "bot1", "none", "newsletter", FALSE, TRUE)]

\* A lead, and a copy posted on a site that is still building.
OnBuildingSite == [l \in {"pitch1", "pitch2"} |->
    CASE l = "pitch1" -> Says("s1", "bot1", "b", "contact", FALSE, TRUE)
      [] l = "pitch2" -> Says("s2", "bot1", "b", "contact", FALSE, TRUE)]

RequestSymmetry == Permutations(Requests)
=============================================================================
