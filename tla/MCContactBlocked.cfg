SPECIFICATION Spec
CONSTANTS
  c1 = c1  a1 = a1  a2 = a2
  Consumers = {c1}
  Attempts = {a1}
  ConsumerOf <- OneConsumer
  Undeliverable = {}
  MaxAttempts = 2
  MaxTries = 2
PROPERTIES BlockedIsTerminal
