\* Both servers and two tokens: one may end while the other is created.  Small
\* tables have up to three routes of up to two parts.
SPECIFICATION FairSpec
CONSTANTS
  Tokens = {t1, t2}
  Magic = Magic
  None = None
  Parameters = {"{x}", "{y}", "{network_id}", "{port_id}", "{subnet_id}", "{router_id}", "{security_group_id}", "{security_group_rule_id}", "{alias}"}
INVARIANTS
  TypeOK
  Authorized
  GoodTokensServed
  WalkFindsMostSpecific
  NoRouteHidden
PROPERTY Answered
