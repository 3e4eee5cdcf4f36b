\* 768 bytes of memory, the first 128 for segment 0.
CONSTANTS
  tam_memoria = 6
  tam_segmento_0 = 1
  cant_segmentos = 4
  algoritmo_asignacion = "BEST"
  Pids = {1, 2}
  Tamanios <- TamaniosChicos
  MaxSegmentos = 4
  QuitarMenosUno = {"cabeza", "nada", "cae"}
SPECIFICATION Spec
INVARIANTS TypeOK ParticionSana HuecosConsolidados TablasYLista CopiaFiel ReintentoCabe
PROPERTIES ImplementaAsignador
CHECK_DEADLOCK FALSE
